---------------------------- MODULE Spec2Model ----------------------------
(***************************************************************************)
(* Model of the nutrition engine of backend/api-service/app/tools.py       *)
(* (NutritionEngine: convert_to_grams, convert_unit_with_llm,              *)
(* lookup_food_usda, lookup_food_local, lookup_food, calculate_rda,        *)
(* calculate_meal_nutrition) and of app/model.py generate_text.            *)
(*                                                                         *)
(* Python values are represented as follows.                               *)
(*  - str   : a sequence of one-character strings, <<"r","i","c","e">>.    *)
(*  - number: a record [k, v]; k = "int" (Python int) or "float" (finite   *)
(*            float) with v the value in thousandths, k = "nan" with       *)
(*            v = 0, k = "inf" with v = 1 or -1 (the sign).                *)
(*  - dict  : a record / function whose domain is the dict's key set.      *)
(***************************************************************************)
EXTENDS Integers, Sequences, FiniteSets, TLC

VARIABLES
    cache,      \* tools._unit_conversion_cache: cache key -> grams
    apiKey,     \* whether tools.USDA_API_KEY is set (read once, at import)
    llmCalls,   \* number of litellm completion() calls issued so far
    usdaCalls,  \* number of GETs sent to the USDA search service so far
    convLog,    \* history: one record per finished convert_to_grams call
    tasks,      \* the lookup_food / lookup_food_sync coroutines
    mealCalls,  \* number of finished calculate_meal_nutrition calls
    mealLast,   \* history: the last calculate_meal_nutrition call
    rdaCalls,   \* number of finished calculate_rda calls
    rdaLast,    \* history: the last calculate_rda call
    localCalls, \* number of finished direct lookup_food_local calls
    localLast,  \* history: the last direct lookup_food_local call
    agents,     \* AgentRunner.agents: the names registered
    sessions,   \* AgentRunner.sessions: session id -> session
    runs        \* the calls of AgentRunner.run and get_or_create_session

vars == <<cache, apiKey, llmCalls, usdaCalls, convLog, tasks,
          mealCalls, mealLast, rdaCalls, rdaLast, localCalls, localLast,
          agents, sessions, runs>>
localVars == <<localCalls, localLast>>
agentVars == <<agents, sessions, runs>>
engineVars == <<cache, apiKey, llmCalls, usdaCalls, convLog, tasks>>
otherVars == <<mealCalls, mealLast, rdaCalls, rdaLast, localVars, agentVars>>

----------------------------------------------------------------------------
(* Python strings *)

S_g == <<"g">>
S_gram == <<"g","r","a","m">>
S_grams == <<"g","r","a","m","s">>
S_mg == <<"m","g">>
S_kg == <<"k","g">>
S_KG == <<"K","G">>
S_cup == <<"c","u","p">>
S_Cup == <<"C","u","p">>
S_piece == <<"p","i","e","c","e">>
S_rice == <<"r","i","c","e">>
S_Rice == <<"R","i","c","e">>
S_egg == <<"e","g","g">>
S_chicken_breast == <<"c","h","i","c","k","e","n"," ","b","r","e","a","s","t">>
S_apple == <<"a","p","p","l","e">>
S_banana == <<"b","a","n","a","n","a">>
S_milk == <<"m","i","l","k">>
S_bread == <<"b","r","e","a","d">>
S_dal == <<"d","a","l">>
S_roti == <<"r","o","t","i">>
S_paneer == <<"p","a","n","e","e","r">>
S_egg_whole_raw == <<"e","g","g"," ","w","h","o","l","e"," ","r","a","w">>
S_banana_raw == <<"b","a","n","a","n","a"," ","r","a","w">>
S_apple_raw == <<"a","p","p","l","e"," ","r","a","w">>
S_unobtainium_snack_42 == <<"u","n","o","b","t","a","i","n","i","u","m","_","s","n","a","c","k","_","4","2">>
S_Egg == <<"E","g","g">>
S_nan == <<"n","a","n">>
S_inf == <<"i","n","f">>
S_infinity == <<"i","n","f","i","n","i","t","y">>

UpperChars == <<"A","B","C","D","E","F","G","H","I","J","K","L","M",
                "N","O","P","Q","R","S","T","U","V","W","X","Y","Z">>
LowerChars == <<"a","b","c","d","e","f","g","h","i","j","k","l","m",
                "n","o","p","q","r","s","t","u","v","w","x","y","z">>
Digits == <<"0","1","2","3","4","5","6","7","8","9">>
Whitespace == {" ", "\t", "\n", "\r"}

UpperSet == {UpperChars[i] : i \in 1..26}
ToLower == [c \in UpperSet |-> LowerChars[CHOOSE i \in 1..26 : UpperChars[i] = c]]

\* str.lower() on one character
LowerChar(c) == IF c \in UpperSet THEN ToLower[c] ELSE c

\* str.lower()
Lower(s) == [i \in 1..Len(s) |-> LowerChar(s[i])]

\* str.strip(): drops leading and trailing whitespace
Strip(s) ==
    IF \A i \in 1..Len(s) : s[i] \in Whitespace THEN <<>>
    ELSE SubSeq(s,
                CHOOSE i \in 1..Len(s) :
                    s[i] \notin Whitespace /\ \A j \in 1..(i - 1) : s[j] \in Whitespace,
                CHOOSE i \in 1..Len(s) :
                    s[i] \notin Whitespace /\ \A j \in (i + 1)..Len(s) : s[j] \in Whitespace)

\* Python's `a in b` on strings
IsSubstr(a, b) ==
    \E i \in 0..(Len(b) - Len(a)) : \A j \in 1..Len(a) : b[i + j] = a[j]

DigitSet == {Digits[i] : i \in 1..10}
DigitVals == [c \in DigitSet |-> (CHOOSE i \in 1..10 : Digits[i] = c) - 1]
DigitVal(c) == DigitVals[c]
IsDigit(c) == c \in DigitSet
AllDigits(s) == \A i \in 1..Len(s) : IsDigit(s[i])

RECURSIVE NatToStr(_)
NatToStr(n) ==
    IF n < 10 THEN <<Digits[n + 1]>>
    ELSE NatToStr(n \div 10) \o <<Digits[(n % 10) + 1]>>

RECURSIVE StrToNat(_)
StrToNat(s) ==
    IF s = <<>> THEN 0
    ELSE 10 * StrToNat(SubSeq(s, 1, Len(s) - 1)) + DigitVal(s[Len(s)])

----------------------------------------------------------------------------
(* Python numbers *)

PyInt(n) == [k |-> "int", v |-> 1000 * n]
PyFloat(milli) == [k |-> "float", v |-> milli]
NaN == [k |-> "nan", v |-> 0]
Inf(sign) == [k |-> "inf", v |-> sign]

IsFinite(x) == x.k \in {"int", "float"}
Abs(n) == IF n < 0 THEN -n ELSE n
Sign(n) == IF n < 0 THEN -1 ELSE IF n > 0 THEN 1 ELSE 0

\* a * b / 1000 for thousandths a, b, without leaving 32 bits on the way
MulMilli(a, b) ==
    LET m == Abs(a)
        f == Abs(b)
    IN  Sign(a) * Sign(b) * ((m \div 1000) * f + ((m % 1000) * f) \div 1000)

\* x * c for a number x and an int literal c > 0 of the source
MulInt(x, c) ==
    CASE x.k = "int" -> [k |-> "int", v |-> x.v * c]
      [] x.k = "float" -> PyFloat(x.v * c)
      [] OTHER -> x

\* x * c for a number x and a float literal c > 0 (in thousandths)
MulFloat(x, cMilli) ==
    IF IsFinite(x) THEN PyFloat(MulMilli(x.v, cMilli)) ELSE x

\* n / d rounded to the nearest integer, ties to even (n >= 0, d > 0):
\* Python's round()
RoundHalfEven(n, d) ==
    LET q == n \div d
        r == n % d
    IN  IF 2 * r > d \/ (2 * r = d /\ q % 2 = 1) THEN q + 1 ELSE q

\* round(value * (grams / 100), decimals) for decimals in {1, 2}: value is a
\* finite number with at most one fraction digit (a per-100 g nutrient value),
\* grams any number. The product is taken exactly (the error of the binary
\* floating point product, which decides exact decimal ties in Python, is not
\* represented), in two parts so that it stays within 32 bits.
ScaleRound(value, grams, decimals) ==
    LET p10 == Abs(value.v) \div 100
        g == Abs(grams.v)
        D == IF decimals = 1 THEN 100000 ELSE 10000
        step == IF decimals = 1 THEN 100 ELSE 10
        n == p10 * (g % D)
        q == p10 * (g \div D) + (n \div D)
        r == n % D
        up == IF 2 * r > D \/ (2 * r = D /\ q % 2 = 1) THEN 1 ELSE 0
    IN  CASE grams.k = "nan" -> NaN
          [] grams.k = "inf" ->
                IF value.v = 0 THEN NaN ELSE Inf(Sign(value.v) * grams.v)
          [] OTHER -> PyFloat(Sign(value.v) * Sign(grams.v) * (q + up) * step)

\* a + b
AddNum(a, b) ==
    CASE a.k = "nan" \/ b.k = "nan" -> NaN
      [] a.k = "inf" /\ b.k = "inf" -> IF a.v = b.v THEN a ELSE NaN
      [] a.k = "inf" -> a
      [] b.k = "inf" -> b
      [] a.k = "int" /\ b.k = "int" -> [k |-> "int", v |-> a.v + b.v]
      [] OTHER -> PyFloat(a.v + b.v)

\* round(x, 1): an int stays the int, a float goes to the nearest tenth
Round1(x) ==
    IF x.k = "float"
    THEN PyFloat(Sign(x.v) * 100 * RoundHalfEven(Abs(x.v), 100))
    ELSE x

\* the fraction digits of repr(float): thousandths, trailing zeros dropped
FracToStr(m) ==
    LET d == <<Digits[(m \div 100) + 1], Digits[((m \div 10) % 10) + 1],
               Digits[(m % 10) + 1]>>
    IN  IF m % 100 = 0 THEN SubSeq(d, 1, 1)
        ELSE IF m % 10 = 0 THEN SubSeq(d, 1, 2) ELSE d

\* str(x) as an f-string formats it: "1" for the int 1, "1.0" for the float
FormatNum(x) ==
    LET sgn == IF x.v < 0 THEN <<"-">> ELSE <<>>
    IN  CASE x.k = "int" -> sgn \o NatToStr(Abs(x.v) \div 1000)
          [] x.k = "float" ->
                sgn \o NatToStr(Abs(x.v) \div 1000) \o <<".">>
                    \o FracToStr(Abs(x.v) % 1000)
          [] x.k = "nan" -> S_nan
          [] OTHER -> sgn \o S_inf

\* float() of an unsigned decimal: ip the text before the first ".", fp the
\* text after it.
ParseDecimal(sgn, ip, fp) ==
    IF /\ AllDigits(ip) /\ AllDigits(fp)
       /\ Len(ip) + Len(fp) > 0 /\ Len(fp) <= 3
    THEN [ok |-> TRUE,
          val |-> PyFloat(sgn * (1000 * StrToNat(ip)
                    + StrToNat(fp \o SubSeq(<<"0","0","0">>, 1, 3 - Len(fp)))))]
    ELSE [ok |-> FALSE, val |-> NaN]

\* float() of the text after the sign; dot is the place of the first "."
\* (Len(body) + 1 when there is none).
ParseUnsigned(sgn, body, low, dot) ==
    IF low = S_nan THEN [ok |-> TRUE, val |-> NaN]
    ELSE IF low \in {S_inf, S_infinity} THEN [ok |-> TRUE, val |-> Inf(sgn)]
    ELSE ParseDecimal(sgn, SubSeq(body, 1, dot - 1), SubSeq(body, dot + 1, Len(body)))

ParseSigned(sgn, body) ==
    ParseUnsigned(sgn, body, Lower(body),
        IF \E i \in 1..Len(body) : body[i] = "."
        THEN CHOOSE i \in 1..Len(body) :
                body[i] = "." /\ \A j \in 1..(i - 1) : body[j] # "."
        ELSE Len(body) + 1)

\* float(s) for a stripped string s: [ok, val]; ok = FALSE is ValueError.
\* Grammar covered: [sign] digits [. digits] | [sign] . digits |
\* [sign] nan | [sign] inf | [sign] infinity (letters in any case), with at
\* most three fraction digits (the precision of the number representation).
ParseFloat(s) ==
    IF Len(s) > 0 /\ s[1] \in {"+", "-"}
    THEN ParseSigned(IF s[1] = "-" THEN -1 ELSE 1, SubSeq(s, 2, Len(s)))
    ELSE ParseSigned(1, s)

----------------------------------------------------------------------------
(* app/model.py *)

\* What litellm's completion() can do: raise, answer with content None, or
\* answer with a text.
CompletionError == [kind |-> "error", text |-> <<>>]
CompletionNone == [kind |-> "none", text |-> <<>>]
CompletionText(t) == [kind |-> "text", text |-> t]

\* generate_text: returns the content, or re-raises what completion() or the
\* len() of a None content raised.
generate_text(completion) ==
    IF completion.kind = "text"
    THEN [raised |-> FALSE, text |-> completion.text,
          logs |-> <<"model.info", "model.info">>]
    ELSE [raised |-> TRUE, text |-> <<>>,
          logs |-> <<"model.info", "model.error">>]

----------------------------------------------------------------------------
(* app/tools.py: unit conversion *)

\* f"{food_name.lower()}|{quantity}|{unit.lower()}"
cache_key(food_name, quantity, unit) ==
    Lower(food_name) \o <<"|">> \o FormatNum(quantity) \o <<"|">> \o Lower(unit)

\* Mutant of LlmTryParsed: the parsed answer is returned but not stored.
LlmTryParsed_NoStore(key, r, p, c) ==
    IF r.raised \/ ~p.ok
    THEN [raised |-> TRUE, grams |-> NaN, cache |-> c, logs |-> r.logs]
    ELSE [raised |-> FALSE, grams |-> p.val, cache |-> c,
          logs |-> r.logs \o <<"tools.info">>]

\* The try block of convert_unit_with_llm after the inference call returned
\* r: the parse p of the stripped answer, the store into the cache.
\* raised = TRUE when a statement of the block raised (generate_text, or
\* float() with ValueError).
LlmTryParsed(key, r, p, c) ==
    IF r.raised \/ ~p.ok
    THEN [raised |-> TRUE, grams |-> NaN, cache |-> c, logs |-> r.logs]
    ELSE [raised |-> FALSE, grams |-> p.val,
          cache |-> [k \in DOMAIN c \cup {key} |->
                        IF k = key THEN p.val ELSE c[k]],
          logs |-> r.logs \o <<"tools.info">>]

LlmTryAnswer(key, r, c) == LlmTryParsed(key, r, ParseFloat(Strip(r.text)), c)

\* The try block of convert_unit_with_llm: one inference call, the parse of
\* the answer, the store into the cache.
LlmTryBlock(key, completion, c) == LlmTryAnswer(key, generate_text(completion), c)

\* Mutant of LlmFallback: the handler logs the error but no warning.
LlmFallback_NoWarning(quantity, t) ==
    [grams |-> MulInt(quantity, 100), cache |-> t.cache, called |-> TRUE,
     fallback |-> TRUE, exc |-> FALSE,
     logs |-> t.logs \o <<"tools.error">>]

\* The except handler of convert_unit_with_llm: quantity * 100.
LlmFallback(quantity, t) ==
    [grams |-> MulInt(quantity, 100), cache |-> t.cache, called |-> TRUE,
     fallback |-> TRUE, exc |-> FALSE,
     logs |-> t.logs \o <<"tools.error", "tools.warning">>]

\* Mutant of LlmCached: no except clause, the exception of the try block
\* leaves convert_unit_with_llm.
LlmCached_NoExcept(key, quantity, t, c) ==
    IF key \in DOMAIN c
    THEN [grams |-> c[key], cache |-> c, called |-> FALSE,
          fallback |-> FALSE, exc |-> FALSE, logs |-> <<>>]
    ELSE [grams |-> t.grams, cache |-> t.cache, called |-> TRUE,
          fallback |-> FALSE, exc |-> t.raised, logs |-> t.logs]

\* Mutant of LlmCached: an entry is dropped from the cache when it is read
\* (an entry lives for one hit).
LlmCached_EvictOnHit(key, quantity, t, c) ==
    IF key \in DOMAIN c
    THEN [grams |-> c[key], cache |-> [k \in DOMAIN c \ {key} |-> c[k]],
          called |-> FALSE, fallback |-> FALSE, exc |-> FALSE, logs |-> <<>>]
    ELSE IF t.raised
         THEN LlmFallback(quantity, t)
         ELSE [grams |-> t.grams, cache |-> t.cache, called |-> TRUE,
               fallback |-> FALSE, exc |-> FALSE, logs |-> t.logs]

\* convert_unit_with_llm from its cache check on, for cache key `key`; t is
\* what the try block does when it runs.
LlmCached(key, quantity, t, c) ==
    IF key \in DOMAIN c
    THEN [grams |-> c[key], cache |-> c, called |-> FALSE,
          fallback |-> FALSE, exc |-> FALSE, logs |-> <<>>]
    ELSE IF t.raised
         THEN LlmFallback(quantity, t)
         ELSE [grams |-> t.grams, cache |-> t.cache, called |-> TRUE,
               fallback |-> FALSE, exc |-> FALSE, logs |-> t.logs]

\* convert_unit_with_llm from the return of generate_text on: t is what the
\* try block did.
LlmAfterCall(quantity, t) ==
    IF t.raised
    THEN LlmFallback(quantity, t)
    ELSE [grams |-> t.grams, cache |-> t.cache, called |-> TRUE,
          fallback |-> FALSE, exc |-> FALSE, logs |-> t.logs]

LlmKeyed(key, quantity, completion, c) ==
    LlmCached(key, quantity, LlmTryBlock(key, completion, c), c)

\* convert_unit_with_llm(food_name, quantity, unit) run against cache c when
\* the inference collaborator behaves as `completion`.
\*   grams: the value returned; cache: the cache afterwards;
\*   called: an inference call was issued; fallback: the except handler ran;
\*   exc: an exception left the function; logs: the log events, in order.
convert_unit_with_llm(food_name, quantity, unit, completion, c) ==
    LlmKeyed(cache_key(food_name, quantity, unit), quantity, completion, c)

\* The units convert_to_grams converts without the inference collaborator.
GramUnits == {S_g, S_gram, S_grams, S_mg, S_kg}

\* What convert_to_grams returns without the inference collaborator.
Direct(g, c) ==
    [grams |-> g, cache |-> c, called |-> FALSE, fallback |-> FALSE,
     exc |-> FALSE, logs |-> <<>>]

\* Mutant of ConvertLowered: "kg" adds 1000 instead of multiplying by it.
ConvertLowered_KgPlus(food_name, quantity, unit_lower, completion, c) ==
    IF unit_lower \in {S_g, S_gram, S_grams} THEN Direct(quantity, c)
    ELSE IF unit_lower = S_mg THEN Direct(MulFloat(quantity, 1), c)
    ELSE IF unit_lower = S_kg THEN Direct(AddNum(quantity, PyInt(1000)), c)
    ELSE convert_unit_with_llm(food_name, quantity, unit_lower, completion, c)

\* Mutant of ConvertLowered: "piece" is converted with the 50 g per egg of
\* the PIECE_WEIGHTS table instead of going to the inference collaborator.
ConvertLowered_PieceTable(food_name, quantity, unit_lower, completion, c) ==
    IF unit_lower \in {S_g, S_gram, S_grams} THEN Direct(quantity, c)
    ELSE IF unit_lower = S_mg THEN Direct(MulFloat(quantity, 1), c)
    ELSE IF unit_lower = S_kg THEN Direct(MulInt(quantity, 1000), c)
    ELSE IF unit_lower = S_piece THEN Direct(MulInt(quantity, 50), c)
    ELSE convert_unit_with_llm(food_name, quantity, unit_lower, completion, c)

\* Mutant of ConvertLowered: "cup" is converted with the factor 240 of the
\* UNIT_CONVERSIONS table instead of going to the inference collaborator.
ConvertLowered_CupTable(food_name, quantity, unit_lower, completion, c) ==
    IF unit_lower \in {S_g, S_gram, S_grams} THEN Direct(quantity, c)
    ELSE IF unit_lower = S_mg THEN Direct(MulFloat(quantity, 1), c)
    ELSE IF unit_lower = S_kg THEN Direct(MulInt(quantity, 1000), c)
    ELSE IF unit_lower = S_cup THEN Direct(MulInt(quantity, 240), c)
    ELSE convert_unit_with_llm(food_name, quantity, unit_lower, completion, c)

\* convert_to_grams from its unit test on.
ConvertLowered(food_name, quantity, unit_lower, completion, c) ==
    IF unit_lower \in {S_g, S_gram, S_grams} THEN Direct(quantity, c)
    ELSE IF unit_lower = S_mg THEN Direct(MulFloat(quantity, 1), c)
    ELSE IF unit_lower = S_kg THEN Direct(MulInt(quantity, 1000), c)
    ELSE convert_unit_with_llm(food_name, quantity, unit_lower, completion, c)

\* Mutant of convert_to_grams: the unit is compared as given, not lowered.
convert_to_grams_NoLower(food_name, quantity, unit, completion, c) ==
    ConvertLowered(food_name, quantity,
                   IF unit # <<>> THEN unit ELSE S_g, completion, c)

\* convert_to_grams(food_name, quantity, unit)
convert_to_grams(food_name, quantity, unit, completion, c) ==
    ConvertLowered(food_name, quantity,
                   IF unit # <<>> THEN Lower(unit) ELSE S_g, completion, c)

\* x >= 0 in Python (False for nan)
NonNegative(x) ==
    CASE x.k \in {"int", "float"} -> x.v >= 0
      [] x.k = "inf" -> x.v = 1
      [] OTHER -> FALSE

----------------------------------------------------------------------------
(* app/tools.py: nutrient lookup *)

\* Python's None
PyNone == [py_none |-> TRUE]

\* dict.get(key, default)
DictGet(d, key, default) == IF key \in DOMAIN d THEN d[key] ELSE default

\* LOCAL_DATABASE of lookup_food_local: its keys in declaration order (the
\* iteration order of the dict) and its values per 100 g.
LocalKeys == <<S_rice, S_chicken_breast, S_egg, S_apple, S_banana, S_milk,
               S_bread, S_dal, S_roti, S_paneer>>

LocalEntry(cal, protein, carbs, fat, fiber) ==
    [calories |-> cal, protein_g |-> protein, carbs_g |-> carbs,
     fat_g |-> fat, fiber_g |-> fiber]

LOCAL_DATABASE ==
    <<LocalEntry(PyInt(130), PyFloat(2700), PyInt(28), PyFloat(300), PyFloat(400)),
      LocalEntry(PyInt(165), PyInt(31), PyInt(0), PyFloat(3600), PyInt(0)),
      LocalEntry(PyInt(155), PyInt(13), PyFloat(1100), PyInt(11), PyInt(0)),
      LocalEntry(PyInt(52), PyFloat(300), PyInt(14), PyFloat(200), PyFloat(2400)),
      LocalEntry(PyInt(89), PyFloat(1100), PyInt(23), PyFloat(300), PyFloat(2600)),
      LocalEntry(PyInt(42), PyFloat(3400), PyInt(5), PyInt(1), PyInt(0)),
      LocalEntry(PyInt(265), PyInt(9), PyInt(49), PyFloat(3200), PyFloat(2700)),
      LocalEntry(PyInt(116), PyInt(9), PyInt(20), PyFloat(400), PyFloat(7900)),
      LocalEntry(PyInt(264), PyFloat(8500), PyInt(52), PyFloat(2100), PyFloat(4400)),
      LocalEntry(PyInt(265), PyInt(18), PyFloat(1200), PyInt(21), PyInt(0))>>

\* Mutant of LocalMatch: the scan does not stop at the first match, the last
\* matching key is used.
LocalMatch_LastWins(normalized_name) ==
    LET exact == {i \in 1..Len(LocalKeys) : LocalKeys[i] = normalized_name}
        part == {i \in 1..Len(LocalKeys) :
                    \/ IsSubstr(LocalKeys[i], normalized_name)
                    \/ IsSubstr(normalized_name, LocalKeys[i])}
    IN  IF exact # {} THEN CHOOSE i \in exact : TRUE
        ELSE IF part # {} THEN CHOOSE i \in part : \A j \in part : j <= i
        ELSE 0

\* Mutant of LocalMatch: an empty normalized name matches no key.
LocalMatch_EmptyIsUnknown(normalized_name) ==
    LET exact == {i \in 1..Len(LocalKeys) : LocalKeys[i] = normalized_name}
        part == {i \in 1..Len(LocalKeys) :
                    \/ IsSubstr(LocalKeys[i], normalized_name)
                    \/ IsSubstr(normalized_name, LocalKeys[i])}
    IN  IF normalized_name = <<>> THEN 0
        ELSE IF exact # {} THEN CHOOSE i \in exact : TRUE
        ELSE IF part # {} THEN CHOOSE i \in part : \A j \in part : i <= j
        ELSE 0

\* The index in LocalKeys of the entry lookup_food_local uses for a
\* normalized name, 0 when there is none: the exact key if the name is one,
\* else the first key, in declaration order, that contains the name or is
\* contained in it.
LocalMatch(normalized_name) ==
    LET exact == {i \in 1..Len(LocalKeys) : LocalKeys[i] = normalized_name}
        part == {i \in 1..Len(LocalKeys) :
                    \/ IsSubstr(LocalKeys[i], normalized_name)
                    \/ IsSubstr(normalized_name, LocalKeys[i])}
    IN  IF exact # {} THEN CHOOSE i \in exact : TRUE
        ELSE IF part # {} THEN CHOOSE i \in part : \A j \in part : i <= j
        ELSE 0

\* Mutant of LocalRecord: the not-found record is built like a found one,
\* tagged "local" and without the error text.
LocalRecord_NoError(food_name, grams, m) ==
    IF m = 0
    THEN [food_name |-> food_name, calories |-> PyInt(0),
          protein_g |-> PyInt(0), carbs_g |-> PyInt(0), fat_g |-> PyInt(0),
          fiber_g |-> PyInt(0), serving |-> FormatNum(grams) \o <<"g">>,
          source |-> "local"]
    ELSE [food_name |-> food_name,
          calories |-> ScaleRound(LOCAL_DATABASE[m].calories, grams, 1),
          protein_g |-> ScaleRound(LOCAL_DATABASE[m].protein_g, grams, 1),
          carbs_g |-> ScaleRound(LOCAL_DATABASE[m].carbs_g, grams, 1),
          fat_g |-> ScaleRound(LOCAL_DATABASE[m].fat_g, grams, 1),
          fiber_g |-> ScaleRound(LOCAL_DATABASE[m].fiber_g, grams, 1),
          serving |-> FormatNum(grams) \o <<"g">>,
          source |-> "local"]

\* Mutant of LocalRecord: scale_factor is grams // 100, the whole hundreds
\* of the grams.
LocalRecord_FloorScale(food_name, grams, m) ==
    IF m = 0
    THEN [food_name |-> food_name, calories |-> PyInt(0),
          protein_g |-> PyInt(0), carbs_g |-> PyInt(0), fat_g |-> PyInt(0),
          fiber_g |-> PyInt(0), error |-> "Food not found in database"]
    ELSE [food_name |-> food_name,
          calories |-> ScaleRound(LOCAL_DATABASE[m].calories,
                         [grams EXCEPT !.v = (grams.v \div 100000) * 100000], 1),
          protein_g |-> ScaleRound(LOCAL_DATABASE[m].protein_g,
                         [grams EXCEPT !.v = (grams.v \div 100000) * 100000], 1),
          carbs_g |-> ScaleRound(LOCAL_DATABASE[m].carbs_g,
                         [grams EXCEPT !.v = (grams.v \div 100000) * 100000], 1),
          fat_g |-> ScaleRound(LOCAL_DATABASE[m].fat_g,
                         [grams EXCEPT !.v = (grams.v \div 100000) * 100000], 1),
          fiber_g |-> ScaleRound(LOCAL_DATABASE[m].fiber_g,
                         [grams EXCEPT !.v = (grams.v \div 100000) * 100000], 1),
          serving |-> FormatNum(grams) \o <<"g">>,
          source |-> "local"]

\* lookup_food_local from the match on: m is the index of the entry used.
LocalRecord(food_name, grams, m) ==
    IF m = 0
    THEN [food_name |-> food_name, calories |-> PyInt(0),
          protein_g |-> PyInt(0), carbs_g |-> PyInt(0), fat_g |-> PyInt(0),
          fiber_g |-> PyInt(0), error |-> "Food not found in database"]
    ELSE [food_name |-> food_name,
          calories |-> ScaleRound(LOCAL_DATABASE[m].calories, grams, 1),
          protein_g |-> ScaleRound(LOCAL_DATABASE[m].protein_g, grams, 1),
          carbs_g |-> ScaleRound(LOCAL_DATABASE[m].carbs_g, grams, 1),
          fat_g |-> ScaleRound(LOCAL_DATABASE[m].fat_g, grams, 1),
          fiber_g |-> ScaleRound(LOCAL_DATABASE[m].fiber_g, grams, 1),
          serving |-> FormatNum(grams) \o <<"g">>,
          source |-> "local"]

\* lookup_food_local(food_name, grams)
lookup_food_local(food_name, grams) ==
    LocalRecord(food_name, grams, LocalMatch(Strip(Lower(food_name))))

\* NUTRIENT_IDS
NUTRIENT_IDS ==
    [calories |-> 1008, protein |-> 1003, fat |-> 1004, carbohydrates |-> 1005,
     fiber |-> 1079, vitamin_c |-> 1162, iron |-> 1089, calcium |-> 1087,
     vitamin_d |-> 1094, vitamin_a |-> 1104, vitamin_b12 |-> 1095,
     vitamin_b6 |-> 1096, folate |-> 1177, magnesium |-> 1090,
     potassium |-> 1092, zinc |-> 1093, selenium |-> 1103, copper |-> 1098,
     manganese |-> 1101, iodine |-> 1100]

NutrientIdValues == {NUTRIENT_IDS[n] : n \in DOMAIN NUTRIENT_IDS}

\* The keys of the "micronutrients" dict lookup_food_usda builds.
MicronutrientKeys ==
    {"vitamin_c", "iron", "calcium", "vitamin_d", "vitamin_a", "vitamin_b12",
     "vitamin_b6", "folate", "magnesium", "potassium", "zinc", "selenium",
     "copper", "manganese", "iodine"}

\* The query lookup_food_usda sends for a food name.
search_query(food_name) ==
    LET food_lower == Lower(food_name)
    IN  IF food_lower = S_egg THEN S_egg_whole_raw
        ELSE IF food_lower = S_banana THEN S_banana_raw
        ELSE IF food_lower = S_apple THEN S_apple_raw
        ELSE food_name

\* What the GET of lookup_food_usda can end with:
\*   kind "raise": client.get raised (transport error, timeout after 15 s) or
\*                 response.json() raised;
\*   kind "http" : a response with a status code and, as its JSON body, the
\*                 list under "foods" (<<>> when the key is missing or the
\*                 list empty). A food is the list of its foodNutrients,
\*                 each [nutrientId, value], with value a number or PyNone.
UsdaRaise == [kind |-> "raise", status |-> 0, foods |-> <<>>]
UsdaHttp(status, foods) == [kind |-> "http", status |-> status, foods |-> foods]

\* The loop over food["foodNutrients"]: nutrient id -> value, for the ids of
\* NUTRIENT_IDS only; a later entry for an id replaces an earlier one.
CollectNutrients(foodNutrients) ==
    LET idx(id) == {i \in 1..Len(foodNutrients) : foodNutrients[i].nutrientId = id}
        ids == {foodNutrients[i].nutrientId : i \in 1..Len(foodNutrients)}
                  \cap NutrientIdValues
    IN  [id \in ids |->
            foodNutrients[CHOOSE i \in idx(id) : \A j \in idx(id) : j <= i].value]

\* get_nutrient(nutrient_name) of lookup_food_usda:
\* round((nutrients.get(nid, 0) * scale_factor) * 100) / 100.
\* raised: the value is None (TypeError), or the product is nan (ValueError
\* of round) or infinite (OverflowError of round).
NutrientValue(value, grams) ==
    IF value = PyNone \/ ~IsFinite(grams)
    THEN [raised |-> TRUE, val |-> NaN]
    ELSE [raised |-> FALSE, val |-> ScaleRound(value, grams, 2)]

\* Mutant of get_nutrient: nutrients[nid] instead of nutrients.get(nid, 0),
\* a KeyError for an id the best match does not list.
get_nutrient_Strict(nutrients, nutrient_name, grams) ==
    IF NUTRIENT_IDS[nutrient_name] \in DOMAIN nutrients
    THEN NutrientValue(nutrients[NUTRIENT_IDS[nutrient_name]], grams)
    ELSE [raised |-> TRUE, val |-> NaN]

get_nutrient(nutrients, nutrient_name, grams) ==
    NutrientValue(DictGet(nutrients, NUTRIENT_IDS[nutrient_name], PyInt(0)), grams)

\* The dict lookup_food_usda returns, from the values get_nutrient gave
\* (got: nutrient name -> [raised, val]); None when one of them raised.
UsdaRecord(food_name, grams, got) ==
    IF \E n \in DOMAIN NUTRIENT_IDS : got[n].raised THEN PyNone
    ELSE [food_name |-> food_name,
          calories |-> got["calories"].val,
          protein_g |-> got["protein"].val,
          carbs_g |-> got["carbohydrates"].val,
          fat_g |-> got["fat"].val,
          fiber_g |-> got["fiber"].val,
          micronutrients |-> [n \in MicronutrientKeys |-> got[n].val],
          serving |-> FormatNum(grams) \o <<"g">>,
          source |-> "usda"]

UsdaCollected(food_name, grams, nutrients) ==
    UsdaRecord(food_name, grams,
               [n \in DOMAIN NUTRIENT_IDS |-> get_nutrient(nutrients, n, grams)])

\* The part of lookup_food_usda after the GET: None or the record.
usda_after_get(food_name, grams, outcome) ==
    IF outcome.kind = "raise" THEN PyNone
    ELSE IF outcome.status # 200 THEN PyNone
    ELSE IF outcome.foods = <<>> THEN PyNone
    ELSE UsdaCollected(food_name, grams, CollectNutrients(outcome.foods[1]))

\* Mutant of lookup_after_usda: the value of lookup_food_usda is returned
\* as it is, None included (no fallback to the local tier).
lookup_after_usda_NoFallback(food_name, grams, usda_result) ==
    [result |-> usda_result, tiers |-> <<"usda">>]

\* Mutant of lookup_after_usda: the local tier is consulted first and the
\* remote record is used only for a food the local tier does not know.
lookup_after_usda_LocalFirst(food_name, grams, usda_result) ==
    IF "error" \notin DOMAIN lookup_food_local(food_name, grams)
       \/ usda_result = PyNone
    THEN [result |-> lookup_food_local(food_name, grams), tiers |-> <<"local">>]
    ELSE [result |-> usda_result, tiers |-> <<"local", "usda">>]

\* The tail of lookup_food and of lookup_food_sync, from the value returned by
\* lookup_food_usda on: the record returned and the tiers consulted, in order.
lookup_after_usda(food_name, grams, usda_result) ==
    IF usda_result # PyNone
    THEN [result |-> usda_result, tiers |-> <<"usda">>]
    ELSE [result |-> lookup_food_local(food_name, grams),
          tiers |-> <<"usda", "local">>]

----------------------------------------------------------------------------
(* app/tools.py: calculate_rda and calculate_meal_nutrition *)

\* RDA_VALUES of calculate_rda
RDA_VALUES ==
    [protein_g |-> PyInt(50), fiber_g |-> PyInt(25), vitamin_c_mg |-> PyInt(90),
     calcium_mg |-> PyInt(1000), iron_mg |-> PyInt(18)]

\* Mutant of rda_percentage: the ratio is not multiplied by 100.
rda_percentage_Ratio(intake_value, rda_value) ==
    IF rda_value.v > 0
    THEN PyFloat(Sign(intake_value.v) * 100
                    * RoundHalfEven(Abs(intake_value.v) * 10, rda_value.v))
    ELSE PyInt(0)

\* round((intake_value / rda_value) * 100, 1) if rda_value > 0 else 0,
\* for finite numbers; the quotient is taken exactly.
rda_percentage(intake_value, rda_value) ==
    IF rda_value.v > 0
    THEN PyFloat(Sign(intake_value.v) * 100
                    * RoundHalfEven(Abs(intake_value.v) * 1000, rda_value.v))
    ELSE PyInt(0)

\* Mutant of calculate_rda: the iron allowance is 18 for a profile whose
\* gender is "female" and 8 otherwise.
calculate_rda_ByGender(user_profile, intake) ==
    [nutrient \in DOMAIN RDA_VALUES |->
        LET rda_value == IF nutrient = "iron_mg"
                            /\ DictGet(user_profile, "gender", "") # "female"
                         THEN PyInt(8) ELSE RDA_VALUES[nutrient]
            intake_value == DictGet(intake, nutrient, PyInt(0))
        IN  [intake |-> intake_value, rda |-> rda_value,
             percentage |-> rda_percentage(intake_value, rda_value)]]

\* calculate_rda(user_profile, intake)
calculate_rda(user_profile, intake) ==
    [nutrient \in DOMAIN RDA_VALUES |->
        LET rda_value == RDA_VALUES[nutrient]
            intake_value == DictGet(intake, nutrient, PyInt(0))
        IN  [intake |-> intake_value, rda |-> rda_value,
             percentage |-> rda_percentage(intake_value, rda_value)]]

TotalKeys == {"calories", "protein_g", "carbs_g", "fat_g", "fiber_g"}

\* Mutant of MealAccumulate: a not-found item is left out of the total and
\* of the item list.
MealAccumulate_SkipUnknown(acc, item, r, nutrition) ==
    IF acc.exc \/ r.exc
    THEN [acc EXCEPT !.exc = TRUE]
    ELSE IF "error" \in DOMAIN nutrition
    THEN [acc EXCEPT !.grams = Append(acc.grams, r.grams), !.cache = r.cache,
                     !.calls = acc.calls + (IF r.called THEN 1 ELSE 0)]
    ELSE [total |-> [k \in TotalKeys |->
                        AddNum(acc.total[k], DictGet(nutrition, k, PyInt(0)))],
          items |-> Append(acc.items,
                           nutrition @@
                           [food_name |-> DictGet(item, "food_name", PyNone),
                            quantity |-> DictGet(item, "quantity", PyNone),
                            unit |-> DictGet(item, "unit", PyNone)]),
          grams |-> Append(acc.grams, r.grams),
          cache |-> r.cache,
          calls |-> acc.calls + (IF r.called THEN 1 ELSE 0),
          tiers |-> acc.tiers,
          exc |-> FALSE]

\* One pass of the loop of calculate_meal_nutrition from the conversion on:
\* r is what convert_to_grams returned, nutrition what lookup_food_local did.
MealAccumulate(acc, item, r, nutrition) ==
    IF acc.exc \/ r.exc
    THEN [acc EXCEPT !.exc = TRUE]
    ELSE [total |-> [k \in TotalKeys |->
                        AddNum(acc.total[k], DictGet(nutrition, k, PyInt(0)))],
          items |-> Append(acc.items,
                           nutrition @@
                           [food_name |-> DictGet(item, "food_name", PyNone),
                            quantity |-> DictGet(item, "quantity", PyNone),
                            unit |-> DictGet(item, "unit", PyNone)]),
          grams |-> Append(acc.grams, r.grams),
          cache |-> r.cache,
          calls |-> acc.calls + (IF r.called THEN 1 ELSE 0),
          tiers |-> acc.tiers,
          exc |-> FALSE]

\* The pass with the lookup l = [result, tiers] of the item: the record is
\* accumulated and the tiers the lookup consulted are noted.
MealLookedUp(acc, item, r, l) ==
    IF acc.exc \/ r.exc
    THEN MealAccumulate(acc, item, r, l.result)
    ELSE [MealAccumulate(acc, item, r, l.result) EXCEPT
              !.tiers = acc.tiers \o l.tiers]

\* Mutant of MealConverted: the item is resolved by lookup_food, the remote
\* tier first (here without a result) and then the local tier.
MealConverted_Tiered(acc, item, r) ==
    MealLookedUp(acc, item, r,
                 lookup_after_usda(DictGet(item, "food_name", <<>>), r.grams,
                                   PyNone))

\* The pass from the conversion on: the item is resolved by
\* lookup_food_local alone.
MealConverted(acc, item, r) ==
    MealLookedUp(acc, item, r,
                 [result |-> lookup_food_local(DictGet(item, "food_name", <<>>),
                                               r.grams),
                  tiers |-> <<"local">>])

\* One pass of the loop of calculate_meal_nutrition over `item`, from the
\* loop state acc = [total, items, grams, cache, calls, tiers, exc].
MealStep(acc, item, completion) ==
    MealConverted(acc, item,
        convert_to_grams(DictGet(item, "food_name", <<>>),
                         DictGet(item, "quantity", PyInt(1)),
                         DictGet(item, "unit", S_g), completion, acc.cache))

RECURSIVE MealLoop(_, _, _, _)
MealLoop(acc, food_items, completions, i) ==
    IF i > Len(food_items) THEN acc
    ELSE MealLoop(MealStep(acc, food_items[i], completions[i]),
                  food_items, completions, i + 1)

\* The return of calculate_meal_nutrition from the final loop state.
MealReturn(acc) ==
    [ret |-> [total |-> [k \in TotalKeys |-> Round1(acc.total[k])],
              items |-> acc.items],
     grams |-> acc.grams, cache |-> acc.cache, calls |-> acc.calls,
     tiers |-> acc.tiers, exc |-> acc.exc]

\* calculate_meal_nutrition(food_items) run against cache c, the i-th
\* inference call, if issued, behaving as completions[i]:
\*   ret: the dict returned; grams: the grams of each item (history);
\*   tiers: the lookup tiers consulted, in order;
\*   cache, calls, exc as for convert_unit_with_llm.
calculate_meal_nutrition(food_items, completions, c) ==
    MealReturn(MealLoop([total |-> [k \in TotalKeys |-> PyInt(0)],
                         items |-> <<>>, grams |-> <<>>,
                         cache |-> c, calls |-> 0, tiers |-> <<>>,
                         exc |-> FALSE],
                        food_items, completions, 1))

----------------------------------------------------------------------------
(* Inputs of the conversion calls *)

MaxCalls == 2

ConvFoods == {S_Rice, S_egg}
ConvQuantities == {PyInt(1), PyInt(2), PyFloat(2000)}
ConvUnits == {S_g, S_mg, S_KG, S_cup, S_piece}
\* The calls drawn: every food and quantity with "g", rice with "mg", "KG"
\* and "cup", 2 pieces of egg, and the two calls of SeparatorInputs.
\* Two calls whose name or unit holds the separator of the cache key.
S_rice_bar_1 == <<"r","i","c","e","|","1">>
S_1_bar_cup == <<"1","|","c","u","p">>
SeparatorInputs ==
    {<<S_rice_bar_1, PyInt(1), S_cup>>, <<S_rice, PyInt(1), S_1_bar_cup>>}
ConvInputs ==
    {i \in ConvFoods \X ConvQuantities \X ConvUnits :
        /\ i[3] = S_piece => (i[1] = S_egg /\ i[2] = PyInt(2))
        /\ i[3] \in {S_mg, S_KG, S_cup} => i[1] = S_Rice}
      \cup SeparatorInputs
Completions ==
    {CompletionError, CompletionNone,
     CompletionText(<<"1","0","0">>),
     CompletionText(<<" ","7","0",".","5","\n">>),
     CompletionText(<<"-","5">>),
     CompletionText(S_nan),
     CompletionText(<<"7","0"," ","g","r","a","m","s">>)}

\* The outcome of the inference call is only drawn when the call is issued.
WouldCall(food_name, quantity, unit, c) ==
    convert_to_grams(food_name, quantity, unit, CompletionError, c).called

NumTasks == 2
Tasks == 1..NumTasks

NumRuns == 2
Runs == 1..NumRuns

Init ==
    /\ cache = <<>>
    /\ apiKey \in BOOLEAN
    /\ llmCalls = 0
    /\ usdaCalls = 0
    /\ convLog = <<>>
    /\ tasks = [t \in Tasks |-> [pc |-> "idle"]]
    /\ mealCalls = 0
    /\ mealLast = PyNone
    /\ rdaCalls = 0
    /\ rdaLast = PyNone
    /\ localCalls = 0
    /\ localLast = PyNone
    /\ agents = {}
    /\ sessions = <<>>
    /\ runs = [r \in Runs |-> [pc |-> "idle"]]

\* The state after a convert_to_grams call that returned r.
Converted(food_name, quantity, unit, r) ==
    /\ cache' = r.cache
    /\ llmCalls' = llmCalls + (IF r.called THEN 1 ELSE 0)
    /\ convLog' = Append(convLog,
          [food_name |-> food_name, quantity |-> quantity, unit |-> unit,
           grams |-> r.grams, called |-> r.called,
           fallback |-> r.fallback, exc |-> r.exc, logs |-> r.logs])
    /\ UNCHANGED <<apiKey, usdaCalls, tasks, otherVars>>

\* One call of convert_to_grams. The function has no await inside (the
\* inference call is a blocking call), so it runs as one step.
Convert(food_name, quantity, unit, completion) ==
    /\ Len(convLog) < MaxCalls
    /\ WouldCall(food_name, quantity, unit, cache) \/ completion = CompletionError
    /\ Converted(food_name, quantity, unit,
                 convert_to_grams(food_name, quantity, unit, completion, cache))

NextConvert ==
    \E i \in ConvInputs, x \in Completions : Convert(i[1], i[2], i[3], x)

SpecConvert == Init /\ [][NextConvert]_vars

----------------------------------------------------------------------------
(* lookup_food and lookup_food_sync as coroutines *)

\* The (food_name, quantity, unit) triples of the lookup_food calls.
LookupInputs ==
    {<<S_rice, PyInt(1), S_cup>>, <<S_Egg, PyInt(2), S_g>>,
     <<S_unobtainium_snack_42, PyInt(100), S_g>>}
LookupCompletions ==
    {CompletionError, CompletionText(<<"2","4","0">>),
     CompletionText(<<"1","8","5">>), CompletionText(S_nan)}
SyncInputs == {<<S_rice, PyInt(240)>>, <<S_unobtainium_snack_42, PyInt(100)>>}

Nutrient(id, value) == [nutrientId |-> id, value |-> value]
\* foodNutrients lists of a best match: all macros and two micronutrients, an
\* id that NUTRIENT_IDS does not know (2047) beside calories only, a null
\* value.
FoodFull ==
    <<Nutrient(1008, PyInt(130)), Nutrient(1003, PyFloat(2700)),
      Nutrient(1004, PyFloat(300)), Nutrient(1005, PyInt(28)),
      Nutrient(1079, PyFloat(400)), Nutrient(1089, PyFloat(200)),
      Nutrient(1087, PyInt(10))>>
FoodSparse == <<Nutrient(2047, PyInt(7)), Nutrient(1008, PyInt(52))>>
FoodNull == <<Nutrient(1008, PyNone)>>
\* A best match that lists no nutrient at all.
FoodBare == <<>>
UsdaOutcomes ==
    {UsdaRaise, UsdaHttp(500, <<>>), UsdaHttp(200, <<>>),
     UsdaHttp(200, <<FoodFull>>), UsdaHttp(200, <<FoodSparse>>),
     UsdaHttp(200, <<FoodNull>>)}
\* lookup_food_usda without an API key returns None before any request.
UsdaNoKey == [kind |-> "no_key", status |-> 0, foods |-> <<>>]

\* Coroutines are numbered in the order in which they are started.
CanStart(t) ==
    tasks[t].pc = "idle" /\ \A s \in Tasks : s < t => tasks[s].pc # "idle"

\* A finished coroutine: what it was called with, how the GET ended, what
\* lookup_food_usda returned, and after = [result, tiers].
Done(call, outcome, usda, after) ==
    [pc |-> "done", call |-> call, outcome |-> outcome, usda |-> usda,
     result |-> after.result, tiers |-> after.tiers, exc |-> FALSE]

\* Where lookup_food_usda stands after its guard on USDA_API_KEY: done with
\* None (no key), or suspended in the GET.
EnterUsda(t, call) ==
    IF ~apiKey
    THEN /\ tasks' = [tasks EXCEPT ![t] =
                Done(call, UsdaNoKey, PyNone,
                     lookup_after_usda(call.food_name, call.grams, PyNone))]
         /\ UNCHANGED usdaCalls
    ELSE /\ tasks' = [tasks EXCEPT ![t] =
                [pc |-> "await_get", call |-> call,
                 query |-> search_query(call.food_name)]]
         /\ usdaCalls' = usdaCalls + 1

\* lookup_food after convert_to_grams returned r.
LookupConverted(t, food_name, quantity, unit, completion, r) ==
    /\ cache' = r.cache
    /\ llmCalls' = llmCalls + (IF r.called THEN 1 ELSE 0)
    /\ IF r.exc
       THEN /\ tasks' = [tasks EXCEPT ![t] =
                   [pc |-> "done", exc |-> TRUE, result |-> PyNone,
                    tiers |-> <<>>, usda |-> PyNone, outcome |-> UsdaNoKey,
                    call |-> [op |-> "lookup_food", food_name |-> food_name,
                              quantity |-> quantity, unit |-> unit]]]
            /\ UNCHANGED usdaCalls
       ELSE EnterUsda(t, [op |-> "lookup_food", food_name |-> food_name,
                          quantity |-> quantity, unit |-> unit,
                          grams |-> r.grams, called |-> r.called,
                          fallback |-> r.fallback, completion |-> completion])
    /\ UNCHANGED <<apiKey, convLog, otherVars>>

\* lookup_food(food_name, quantity, unit) up to its first suspension: the
\* conversion, then lookup_food_usda up to the GET.
LookupFood(t, food_name, quantity, unit, completion) ==
    /\ CanStart(t)
    /\ WouldCall(food_name, quantity, unit, cache) \/ completion = CompletionError
    /\ LookupConverted(t, food_name, quantity, unit, completion,
          convert_to_grams(food_name, quantity, unit, completion, cache))

\* lookup_food_sync(food_name, grams) up to its first suspension.
LookupFoodSync(t, food_name, grams) ==
    /\ CanStart(t)
    /\ EnterUsda(t, [op |-> "lookup_food_sync", food_name |-> food_name,
                     quantity |-> PyNone, unit |-> <<>>, grams |-> grams,
                     called |-> FALSE, fallback |-> FALSE,
                     completion |-> CompletionError])
    /\ UNCHANGED <<cache, apiKey, llmCalls, convLog, otherVars>>

\* lookup_food / lookup_food_sync after lookup_food_usda returned `usda`.
UsdaReturned(t, call, outcome, usda) ==
    tasks' = [tasks EXCEPT ![t] =
        Done(call, outcome, usda,
             lookup_after_usda(call.food_name, call.grams, usda))]

\* The GET of task t ends with `outcome`; the coroutine runs to its return.
UsdaResponse(t, outcome) ==
    /\ tasks[t].pc = "await_get"
    /\ UsdaReturned(t, tasks[t].call, outcome,
          usda_after_get(tasks[t].call.food_name, tasks[t].call.grams, outcome))
    /\ UNCHANGED <<cache, apiKey, llmCalls, usdaCalls, convLog, otherVars>>

Next ==
    \/ \E t \in Tasks, i \in LookupInputs, x \in LookupCompletions :
          LookupFood(t, i[1], i[2], i[3], x)
    \/ \E t \in Tasks, i \in SyncInputs : LookupFoodSync(t, i[1], i[2])
    \/ \E t \in Tasks, o \in UsdaOutcomes : UsdaResponse(t, o)

Spec == Init /\ [][Next]_vars

----------------------------------------------------------------------------
(* lookup_food coroutines on the event loop, the inference call as a step *)

LoopInputs ==
    {<<S_rice, PyInt(1), S_cup>>, <<S_Rice, PyInt(1), S_Cup>>,
     <<S_Egg, PyInt(2), S_g>>}
LoopCompletions == {CompletionError, CompletionText(<<"2","4","0">>)}
LoopOutcomes ==
    {UsdaRaise, UsdaHttp(200, <<FoodFull>>), UsdaHttp(200, <<FoodSparse>>),
     UsdaHttp(200, <<FoodBare>>)}

\* generate_text is a plain function called without await: while a coroutine
\* is inside it the thread of the event loop is inside it too, and no other
\* coroutine is started or resumed.
LoopFree_Awaited == TRUE

LoopFree == \A u \in Tasks : tasks[u].pc # "in_generate"

\* convert_unit_with_llm missed the cache and called generate_text.
EnterGenerate(t, food_name, quantity, unit) ==
    /\ tasks' = [tasks EXCEPT ![t] =
          [pc |-> "in_generate",
           call |-> [op |-> "lookup_food", food_name |-> food_name,
                     quantity |-> quantity, unit |-> unit],
           key |-> cache_key(food_name, quantity, Lower(unit))]]
    /\ llmCalls' = llmCalls + 1
    /\ UNCHANGED <<cache, apiKey, usdaCalls, convLog, otherVars>>

\* lookup_food(food_name, quantity, unit) up to its first suspension or up to
\* the inference call.
LoopLookupFood(t, food_name, quantity, unit) ==
    /\ CanStart(t)
    /\ LoopFree
    /\ IF WouldCall(food_name, quantity, unit, cache)
       THEN EnterGenerate(t, food_name, quantity, unit)
       ELSE LookupConverted(t, food_name, quantity, unit, CompletionError,
                convert_to_grams(food_name, quantity, unit, CompletionError, cache))

\* lookup_food after convert_unit_with_llm returned r from its inference
\* call.
GenerateReturned(t, call, completion, r) ==
    /\ cache' = r.cache
    /\ EnterUsda(t, [op |-> call.op, food_name |-> call.food_name,
                     quantity |-> call.quantity, unit |-> call.unit,
                     grams |-> r.grams, called |-> r.called,
                     fallback |-> r.fallback, completion |-> completion])
    /\ UNCHANGED <<apiKey, llmCalls, convLog, otherVars>>

\* generate_text returns or raises; the coroutine runs on to the GET.
GenerateReturns(t, completion) ==
    /\ tasks[t].pc = "in_generate"
    /\ GenerateReturned(t, tasks[t].call, completion,
          LlmAfterCall(tasks[t].call.quantity,
                       LlmTryBlock(tasks[t].key, completion, cache)))

LoopUsdaResponse(t, outcome) == LoopFree /\ UsdaResponse(t, outcome)

UsdaAnswers == \E t \in Tasks, o \in LoopOutcomes : LoopUsdaResponse(t, o)

NextLoop ==
    \/ \E t \in Tasks, i \in LoopInputs : LoopLookupFood(t, i[1], i[2], i[3])
    \/ \E t \in Tasks, x \in LoopCompletions : GenerateReturns(t, x)
    \/ UsdaAnswers

\* The GET is issued with timeout=15.0, so it ends; the inference call is
\* issued without a timeout, so nothing makes it end.
SpecLoop == Init /\ [][NextLoop]_vars /\ WF_vars(UsdaAnswers)

----------------------------------------------------------------------------
(* calculate_meal_nutrition calls *)

MaxMeals == 2
MaxItems == 2

ItemRiceCup == [food_name |-> S_rice, quantity |-> PyInt(1), unit |-> S_cup]
ItemChicken == [food_name |-> S_chicken_breast, quantity |-> PyInt(150), unit |-> S_g]
ItemUnknown ==
    [food_name |-> S_unobtainium_snack_42, quantity |-> PyFloat(2000), unit |-> S_kg]
MealItems == {ItemRiceCup, ItemChicken, ItemUnknown}
MealCompletions == {CompletionError, CompletionText(<<"2","4","0">>)}

SeqsUpTo(S, n) == UNION {[1..m -> S] : m \in 0..n}

\* The state after a calculate_meal_nutrition call that returned r. A
\* consultation of the remote tier is a call to the remote collaborator
\* when an API key is configured (lookup_food_usda returns at once
\* without one).
MealDone(food_items, completions, r) ==
    /\ cache' = r.cache
    /\ llmCalls' = llmCalls + r.calls
    /\ mealCalls' = mealCalls + 1
    /\ mealLast' = [food_items |-> food_items, completions |-> completions,
                    before |-> cache, ret |-> r.ret, grams |-> r.grams,
                    calls |-> r.calls, tiers |-> r.tiers, exc |-> r.exc]
    /\ usdaCalls' = usdaCalls +
          (IF apiKey
           THEN Cardinality({i \in 1..Len(r.tiers) : r.tiers[i] = "usda"})
           ELSE 0)
    /\ UNCHANGED <<apiKey, convLog, tasks, rdaCalls, rdaLast, localVars,
                   agentVars>>

\* One call of calculate_meal_nutrition. No await in it suspends (the
\* conversion never yields to the event loop), so it runs as one step.
\* An inference outcome is drawn only for the items that can need one.
CalculateMeal(food_items, completions) ==
    /\ mealCalls < MaxMeals
    /\ Len(completions) = Len(food_items)
    /\ \A i \in 1..Len(food_items) :
          \/ completions[i] = CompletionError
          \/ DictGet(food_items[i], "unit", S_g) = S_cup
    /\ MealDone(food_items, completions,
                calculate_meal_nutrition(food_items, completions, cache))

NextMeal ==
    \E fi \in SeqsUpTo(MealItems, MaxItems) :
        \E x \in [1..Len(fi) -> MealCompletions] : CalculateMeal(fi, x)

SpecMeal == Init /\ [][NextMeal]_vars

----------------------------------------------------------------------------
(* calculate_rda calls *)

MaxRda == 1

Profiles == {<<>>, [age |-> PyInt(30), gender |-> "female"]}
\* Per nutrient of the table: no entry, the RDA itself, or 20.0. "calories"
\* is a key the table does not have.
IntakeKeys == DOMAIN RDA_VALUES \cup {"calories"}
Intakes ==
    UNION {[S -> {"rda", "other"}] : S \in {T \in SUBSET IntakeKeys :
                "calories" \in T => T = IntakeKeys}}
IntakeOf(choice) ==
    [n \in DOMAIN choice |->
        IF choice[n] = "rda" /\ n \in DOMAIN RDA_VALUES
        THEN RDA_VALUES[n] ELSE PyFloat(20000)]

\* One call of calculate_rda (a plain function: one step).
CalculateRda(user_profile, intake) ==
    /\ rdaCalls < MaxRda
    /\ rdaCalls' = rdaCalls + 1
    /\ rdaLast' = [user_profile |-> user_profile, intake |-> intake,
                   ret |-> calculate_rda(user_profile, intake)]
    /\ UNCHANGED <<cache, apiKey, llmCalls, usdaCalls, convLog, tasks,
                   mealCalls, mealLast, localVars, agentVars>>

NextRda ==
    \E p \in Profiles, c \in Intakes : CalculateRda(p, IntakeOf(c))

SpecRda == Init /\ [][NextRda]_vars

----------------------------------------------------------------------------
(* lookup_food_local calls *)

MaxLocal == 2

\* Names: a key, a key in another case with blanks around it, a name that
\* contains a key, a name contained in a key, a name without entry.
S_Chicken_Breast_padded ==
    <<" ","C","h","i","c","k","e","n"," ","B","r","e","a","s","t"," ">>
S_boiled_egg == <<"b","o","i","l","e","d"," ","e","g","g">>
S_pane == <<"p","a","n","e">>
\* A name that contains two keys, the empty name and a name of blanks only.
S_egg_bread == <<"e","g","g"," ","b","r","e","a","d">>
S_empty == <<>>
S_blanks == <<" ","\t">>
LocalFoods ==
    {S_rice, S_Chicken_Breast_padded, S_boiled_egg, S_pane, S_bread,
     S_unobtainium_snack_42, S_egg_bread, S_empty, S_blanks}
\* Amounts in grams, all multiples of 0.5.
LocalGrams ==
    {PyFloat(500), PyInt(1), PyInt(33), PyInt(50), PyInt(100), PyInt(150),
     PyFloat(185000), PyInt(240), PyInt(333), PyInt(1000), PyFloat(2500)}

\* One call of lookup_food_local (a plain function: one step), recorded with
\* what the same name gives for 100 g.
LookupLocal(food_name, grams) ==
    /\ localCalls < MaxLocal
    /\ localCalls' = localCalls + 1
    /\ localLast' = [food_name |-> food_name, grams |-> grams,
                     ret |-> lookup_food_local(food_name, grams),
                     base |-> lookup_food_local(food_name, PyInt(100))]
    /\ UNCHANGED <<cache, apiKey, llmCalls, usdaCalls, convLog, tasks,
                   mealCalls, mealLast, rdaCalls, rdaLast, agentVars>>

NextLocal == \E f \in LocalFoods, g \in LocalGrams : LookupLocal(f, g)

SpecLocal == Init /\ [][NextLocal]_vars

----------------------------------------------------------------------------
(* app/agents.py: AgentRunner *)

\* A Python str (None is PyNone)
PyStr(s) == [str |-> s]

\* The reply of run when the model call fails
APOLOGY ==
    PyStr("I'm sorry, I couldn't process your request at this time. Please try again later.")

\* AgentContext(user_id, session_id)
AgentContext(user_id, session_id) ==
    [user_id |-> user_id, session_id |-> session_id, metadata |-> <<>>]

\* The dict get_or_create_session stores for a new session id
NewSession(session_id, user_id) ==
    [session_id |-> session_id, user_id |-> user_id, messages |-> <<>>,
     context |-> AgentContext(user_id, session_id)]

\* Mutant of get_or_create_session: the session is created on every call.
get_or_create_session_Always(ss, session_id, user_id) ==
    [k \in DOMAIN ss \cup {session_id} |->
        IF k = session_id THEN NewSession(session_id, user_id) ELSE ss[k]]

\* get_or_create_session(session_id, user_id) on the sessions ss: the
\* sessions afterwards; the value returned is the session under session_id.
get_or_create_session(ss, session_id, user_id) ==
    IF session_id \in DOMAIN ss THEN ss
    ELSE [k \in DOMAIN ss \cup {session_id} |->
             IF k = session_id THEN NewSession(session_id, user_id) ELSE ss[k]]

\* session_id or f"session_{id(message)}_{user_id or 'anon'}": ident stands
\* for id(message), the address of the message object.
RunSessionId(session_id, ident, user_id) ==
    IF session_id # PyNone THEN <<session_id.str>>
    ELSE <<"session_", ident, "_",
           IF user_id # PyNone THEN user_id.str ELSE "anon">>

\* agent_context.metadata["user_context"] = context, for a given context
WithUserContext(ss, sid, context) ==
    IF context = PyNone THEN ss
    ELSE [ss EXCEPT ![sid].context.metadata =
              [n \in DOMAIN @ \cup {"user_context"} |->
                  IF n = "user_context" THEN context ELSE @[n]]]

\* self.agents.get(agent_name), else self.agents.get("coach"); "none" is
\* None.
ResolveAgent(registered, agent_name) ==
    IF agent_name \in registered THEN agent_name
    ELSE IF "coach" \in registered THEN "coach" ELSE "none"

\* input_message
InputMessage(message, context) ==
    IF context = PyNone THEN <<message.str>>
    ELSE <<"User Context:\n", context.str, "\n\nUser Message:\n", message.str>>

\* The messages run sends to the model: the agent's instructions when there
\* is an agent, then the input message.
SentMessages(agent, input_message) ==
    IF agent # "none"
    THEN <<[role |-> "system", content |-> <<"instructions of", agent>>],
           [role |-> "user", content |-> input_message]>>
    ELSE <<[role |-> "user", content |-> input_message]>>

\* How litellm.acompletion ends: a response with a content (None when the
\* model sent none), an exception, or the cancellation of the awaiting task.
AcompletionText(content) == [kind |-> "text", content |-> content]
AcompletionRaise == [kind |-> "raise", content |-> PyNone]
AcompletionCancelled == [kind |-> "cancelled", content |-> PyNone]

\* result after the try statement of run
RunResult(outcome) ==
    IF outcome.kind = "text" THEN outcome.content ELSE APOLOGY

\* Mutant of StoreConversation: the apology of a failed model call is not
\* stored.
StoreConversation_NoApology(messages, message, result) ==
    IF result = APOLOGY
    THEN Append(messages, [role |-> "user", content |-> message])
    ELSE messages \o <<[role |-> "user", content |-> message],
                       [role |-> "assistant", content |-> result]>>

\* The two appends of run to session["messages"]
StoreConversation(messages, message, result) ==
    messages \o <<[role |-> "user", content |-> message],
                  [role |-> "assistant", content |-> result]>>

----------------------------------------------------------------------------
(* Calls of AgentRunner *)

AgentNames == {"coach"}
RunAgentNames == {"nutrition"}
RunSessionIds == {PyStr("s1"), PyNone}
GetSessionIds == {<<"s1">>, <<"s2">>}
UserIds == {PyStr("u1"), PyNone}
Contexts == {PyNone, PyStr("age 30")}
\* Every call of run has a message of its own, and the model a reply of
\* its own for it.
MessageOf(r) == PyStr(<<"message", r>>)
AcompletionOutcomes(r) ==
    {AcompletionText(PyStr(<<"reply", r>>)), AcompletionText(PyNone),
     AcompletionRaise, AcompletionCancelled}

nonAgentVars ==
    <<engineVars, mealCalls, mealLast, rdaCalls, rdaLast, localVars>>

\* register_agent(name, agent)
RegisterAgent(name) ==
    /\ agents' = agents \cup {name}
    /\ UNCHANGED <<sessions, runs, nonAgentVars>>

\* Calls are numbered in the order in which they are started.
CanStartRun(r) ==
    runs[r].pc = "idle" /\ \A s \in Runs : s < r => runs[s].pc # "idle"

\* The state after a direct call of get_or_create_session left the sessions
\* ss.
GotSession(r, session_id, user_id, ss) ==
    /\ sessions' = ss
    /\ runs' = [runs EXCEPT ![r] =
          [pc |-> "done", op |-> "get_or_create_session",
           session_id |-> session_id, user_id |-> user_id,
           created |-> session_id \notin DOMAIN sessions,
           ret |-> ss[session_id], exc |-> FALSE]]
    /\ UNCHANGED <<agents, nonAgentVars>>

\* One call of get_or_create_session (a plain method: one step).
GetOrCreateSession(r, session_id, user_id) ==
    /\ CanStartRun(r)
    /\ GotSession(r, session_id, user_id,
                  get_or_create_session(sessions, session_id, user_id))

\* run up to its await, with the session id sid.
RunStarted(r, agent_name, sid, user_id, context) ==
    /\ sessions' = WithUserContext(
                      get_or_create_session(sessions, sid, user_id), sid, context)
    /\ runs' = [runs EXCEPT ![r] =
          [pc |-> "await_acompletion", op |-> "run",
           agent_name |-> agent_name, message |-> MessageOf(r),
           session_id |-> sid, user_id |-> user_id, context |-> context,
           created |-> sid \notin DOMAIN sessions,
           sent |-> SentMessages(ResolveAgent(agents, agent_name),
                                 InputMessage(MessageOf(r), context))]]
    /\ UNCHANGED <<agents, nonAgentVars>>

\* run(agent_name, message, session_id, user_id, context) up to
\* `await litellm.acompletion(...)`.
RunStart(r, agent_name, session_id, ident, user_id, context) ==
    /\ CanStartRun(r)
    /\ RunStarted(r, agent_name, RunSessionId(session_id, ident, user_id),
                  user_id, context)

\* run from the end of the try statement on, with `result`: the two appends,
\* the log line (result[:100] raises TypeError for None), the return.
RunStored(r, outcome, result) ==
    /\ sessions' = [sessions EXCEPT ![runs[r].session_id].messages =
                       StoreConversation(@, runs[r].message, result)]
    /\ runs' = [runs EXCEPT ![r] =
          [pc |-> "done", op |-> "run", message |-> runs[r].message,
           session_id |-> runs[r].session_id, user_id |-> runs[r].user_id,
           context |-> runs[r].context, created |-> runs[r].created,
           outcome |-> outcome, result |-> result,
           at |-> Len(sessions[runs[r].session_id].messages) + 1,
           stored |-> TRUE, exc |-> result = PyNone]]

\* The cancellation leaves run through the await: CancelledError is not an
\* Exception, nothing is stored.
RunCancelled(r) ==
    /\ sessions' = sessions
    /\ runs' = [runs EXCEPT ![r] =
          [pc |-> "done", op |-> "run", message |-> runs[r].message,
           session_id |-> runs[r].session_id, user_id |-> runs[r].user_id,
           context |-> runs[r].context, created |-> runs[r].created,
           outcome |-> AcompletionCancelled, result |-> PyNone,
           at |-> 0, stored |-> FALSE, exc |-> TRUE]]

\* litellm.acompletion of run r ends; run goes on to its end.
AcompletionReturns(r, outcome) ==
    /\ runs[r].pc = "await_acompletion"
    /\ IF outcome.kind = "cancelled" THEN RunCancelled(r)
       ELSE RunStored(r, outcome, RunResult(outcome))
    /\ UNCHANGED <<agents, nonAgentVars>>

NextAgent ==
    \/ \E n \in AgentNames : RegisterAgent(n)
    \/ \E r \in Runs, s \in GetSessionIds, u \in UserIds :
          GetOrCreateSession(r, s, u)
    \/ \E r \in Runs, a \in RunAgentNames, s \in RunSessionIds,
          u \in UserIds, c \in Contexts : RunStart(r, a, s, "id", u, c)
    \/ \E r \in Runs : \E o \in AcompletionOutcomes(r) : AcompletionReturns(r, o)

SpecAgent == Init /\ [][NextAgent]_vars

----------------------------------------------------------------------------
(* Properties of the conversion (SpecConvert) *)

\* C1: convert_to_grams never fails. Whatever the inference collaborator
\* does (raises, returns no text, returns text that is not a number), every
\* call returns a Python number and no exception leaves it.
C1_ConvertNeverFails ==
    \A i \in 1..Len(convLog) :
        /\ ~convLog[i].exc
        /\ convLog[i].grams.k \in {"int", "float", "nan", "inf"}

\* A call whose inference call failed and that fell back, beside a call
\* whose inference answer was parsed.
C1_Witness ==
    \E i, j \in 1..Len(convLog) :
        /\ convLog[i].called /\ convLog[i].fallback
        /\ "tools.error" \in {convLog[i].logs[n] : n \in 1..Len(convLog[i].logs)}
        /\ convLog[j].called /\ ~convLog[j].fallback

SameArguments(a, b) ==
    /\ a.food_name = b.food_name
    /\ a.quantity = b.quantity
    /\ a.unit = b.unit

\* C2, as stated: two successive calls with identical arguments issue at
\* most one inference call in total and return the same grams.
C2_AtMostOneCall ==
    \A i, j \in 1..Len(convLog) :
        (i < j /\ SameArguments(convLog[i], convLog[j])) =>
            /\ ~(convLog[i].called /\ convLog[j].called)
            /\ convLog[j].grams = convLog[i].grams

\* C2, amended: after a call that did not fall back (a gram unit, a cache
\* hit, or an inference answer that parsed), a later call with identical
\* arguments issues no inference call and returns the same grams. A call
\* that fell back stored nothing.
C2_MemoizedAfterSuccess ==
    \A i, j \in 1..Len(convLog) :
        (i < j /\ SameArguments(convLog[i], convLog[j]) /\ ~convLog[i].fallback) =>
            /\ ~convLog[j].called
            /\ convLog[j].grams = convLog[i].grams

\* An inference answer that parsed, then the same call answered from the
\* cache.
C2_Witness ==
    \E i, j \in 1..Len(convLog) :
        /\ i < j /\ SameArguments(convLog[i], convLog[j])
        /\ convLog[i].called /\ ~convLog[i].fallback
        /\ ~convLog[j].called
        /\ convLog[j].grams = convLog[i].grams

\* C3: the grams returned for a non-negative quantity, and the grams kept in
\* the conversion cache, are never negative.
C3_GramsNonNegative ==
    /\ \A i \in 1..Len(convLog) :
          NonNegative(convLog[i].quantity) => NonNegative(convLog[i].grams)
    /\ \A k \in DOMAIN cache : NonNegative(cache[k])

----------------------------------------------------------------------------
(* Properties of the lookup (Spec) *)

Finished(t) == tasks[t].pc = "done"

\* The GET did not produce a usable response: no key, transport error or
\* timeout, or a status other than 200.
Unreachable(outcome) ==
    \/ outcome.kind \in {"no_key", "raise"}
    \/ outcome.kind = "http" /\ outcome.status # 200

\* The record of a food no tier knows: an error text and no source.
IsUnresolved(r) == "error" \in DOMAIN r /\ "source" \notin DOMAIN r

IsFrom(r, tier) == "source" \in DOMAIN r /\ r.source = tier

NoLocalKey(normalized_name) ==
    \A i \in 1..Len(LocalKeys) :
        /\ LocalKeys[i] # normalized_name
        /\ ~IsSubstr(LocalKeys[i], normalized_name)
        /\ ~IsSubstr(normalized_name, LocalKeys[i])

IsZero(x) == x.k \in {"int", "float"} /\ x.v = 0

C6_MicronutrientsPresent ==
    \A t \in Tasks :
        (Finished(t) /\ ~tasks[t].exc) =>
            /\ "micronutrients" \in DOMAIN tasks[t].result
            /\ DOMAIN tasks[t].result.micronutrients = MicronutrientKeys

\* The remote tier answered nothing usable: unreachable, or no match.
RemoteFailed(outcome) ==
    \/ Unreachable(outcome)
    \/ outcome.kind = "http" /\ outcome.foods = <<>>

\* A 200 response with a best match whose values are all numbers.
WellFormed(outcome) ==
    /\ outcome.kind = "http" /\ outcome.status = 200
    /\ outcome.foods # <<>>
    /\ \A n \in 1..Len(outcome.foods[1]) : outcome.foods[1][n].value # PyNone

\* C7: a lookup consults the remote tier first; when the remote tier fails
\* (no key, error, status other than 200, no match) the local tier is
\* consulted with the same name and grams and its record is returned, and
\* nothing is raised. A well-formed remote answer for a finite amount is
\* returned and the local tier is not consulted.
C7_RemoteThenLocal ==
    \A t \in Tasks :
        Finished(t) =>
            /\ ~tasks[t].exc
            /\ tasks[t].tiers # <<>> /\ tasks[t].tiers[1] = "usda"
            /\ RemoteFailed(tasks[t].outcome) =>
                  /\ tasks[t].usda = PyNone
                  /\ tasks[t].tiers = <<"usda", "local">>
                  /\ tasks[t].result =
                        lookup_food_local(tasks[t].call.food_name,
                                          tasks[t].call.grams)
            /\ (WellFormed(tasks[t].outcome) /\ IsFinite(tasks[t].call.grams)) =>
                  /\ tasks[t].tiers = <<"usda">>
                  /\ IsFrom(tasks[t].result, "usda")
                  /\ tasks[t].result = tasks[t].usda

\* A lookup answered by the remote tier, beside a lookup whose remote search
\* matched nothing and that the local tier answered.
C7_Witness ==
    \E t, u \in Tasks :
        /\ Finished(t) /\ WellFormed(tasks[t].outcome)
        /\ IsFrom(tasks[t].result, "usda")
        /\ Finished(u) /\ tasks[u].outcome.kind = "http"
        /\ tasks[u].outcome.status = 200 /\ tasks[u].outcome.foods = <<>>
        /\ tasks[u].tiers = <<"usda", "local">>
        /\ IsFrom(tasks[u].result, "local")

\* A finished lookup_food("rice", 1, "cup").
IsRiceCup(t) ==
    /\ Finished(t) /\ ~tasks[t].exc
    /\ tasks[t].call.op = "lookup_food"
    /\ tasks[t].call.food_name = S_rice
    /\ tasks[t].call.quantity = PyInt(1)
    /\ tasks[t].call.unit = S_cup

Key_rice_1_cup == <<"r","i","c","e","|","1","|","c","u","p">>

\* C10, as stated: in lookup_food("rice", 1, "cup") the conversion yields
\* 240 g (a fixed factor).
C10_CupIs240 ==
    \A t \in Tasks : IsRiceCup(t) => tasks[t].call.grams.v = 240000

\* C10, amended: the conversion of 1 cup of rice is what the inference
\* collaborator answers (240 only when it answers 240), the cached answer,
\* or 100 (quantity * 100) when the inference call fails; and rice, 240 g,
\* from the local tier has 312.0 calories.
C10_ScenarioA ==
    \A t \in Tasks :
        /\ IsRiceCup(t) =>
              /\ tasks[t].call.fallback => tasks[t].call.grams = PyInt(100)
              /\ (tasks[t].call.called /\ ~tasks[t].call.fallback) =>
                    /\ tasks[t].call.completion.kind = "text"
                    /\ tasks[t].call.completion.text = <<"2","4","0">>
                          <=> tasks[t].call.grams = PyFloat(240000)
              /\ ~tasks[t].call.called =>
                    /\ Key_rice_1_cup \in DOMAIN cache
                    /\ cache[Key_rice_1_cup] = tasks[t].call.grams
        /\ (/\ Finished(t) /\ ~tasks[t].exc
            /\ tasks[t].call.food_name = S_rice
            /\ tasks[t].call.grams.k \in {"int", "float"}
            /\ tasks[t].call.grams.v = 240000
            /\ tasks[t].usda = PyNone) =>
              /\ IsFrom(tasks[t].result, "local")
              /\ tasks[t].result.calories = PyFloat(312000)

\* lookup_food("rice", 1, "cup") with the inference answer "240" and a
\* failed remote request: 240 g, 312.0 calories, from the local tier.
C10_Witness ==
    \E t \in Tasks :
        /\ IsRiceCup(t)
        /\ tasks[t].call.called /\ ~tasks[t].call.fallback
        /\ tasks[t].call.grams = PyFloat(240000)
        /\ tasks[t].usda = PyNone
        /\ tasks[t].result.calories = PyFloat(312000)
        /\ IsFrom(tasks[t].result, "local")

----------------------------------------------------------------------------
(* Properties of the meal aggregation (SpecMeal) *)

\* The conversion cache as it is when item i of the meal is converted.
RECURSIVE CacheBeforeItem(_, _, _, _)
CacheBeforeItem(food_items, completions, c, i) ==
    IF i = 1 THEN c
    ELSE convert_to_grams(food_items[i-1].food_name, food_items[i-1].quantity,
                          food_items[i-1].unit, completions[i-1],
                          CacheBeforeItem(food_items, completions, c, i - 1)).cache

\* Item i of the meal converted and looked up on its own.
ItemAlone(food_items, completions, c, i) ==
    lookup_food_local(
        food_items[i].food_name,
        convert_to_grams(food_items[i].food_name, food_items[i].quantity,
                         food_items[i].unit, completions[i],
                         CacheBeforeItem(food_items, completions, c, i)).grams)

\* The calories of the first n items, added exactly (thousandths).
RECURSIVE SumCalories(_, _)
SumCalories(items, n) ==
    IF n = 0 THEN 0 ELSE SumCalories(items, n - 1) + items[n].calories.v

\* C8: calculate_meal_nutrition returns one item per input item, in input
\* order, each with the fields of that item converted and looked up on its
\* own, and total.calories is the sum of the items' calories.
C8_MealIsSumOfItems ==
    mealLast # PyNone =>
        /\ ~mealLast.exc
        /\ Len(mealLast.ret.items) = Len(mealLast.food_items)
        /\ \A i \in 1..Len(mealLast.food_items) :
              /\ mealLast.ret.items[i].food_name = mealLast.food_items[i].food_name
              /\ mealLast.ret.items[i].quantity = mealLast.food_items[i].quantity
              /\ mealLast.ret.items[i].unit = mealLast.food_items[i].unit
              /\ \A k \in DOMAIN ItemAlone(mealLast.food_items, mealLast.completions,
                                          mealLast.before, i) :
                    mealLast.ret.items[i][k] =
                        ItemAlone(mealLast.food_items, mealLast.completions,
                                  mealLast.before, i)[k]
        /\ \A i \in 1..Len(mealLast.ret.items) :
              IsFinite(mealLast.ret.items[i].calories)
        /\ IsFinite(mealLast.ret.total.calories)
        /\ mealLast.ret.total.calories.v =
              SumCalories(mealLast.ret.items, Len(mealLast.ret.items))

\* 1 cup of rice (inference answer 240) and 150 g of chicken breast:
\* 312.0 + 247.5 = 559.5 calories, in that order.
C8_Witness ==
    /\ mealLast # PyNone
    /\ mealLast.food_items = <<ItemRiceCup, ItemChicken>>
    /\ mealLast.ret.items[1].calories = PyFloat(312000)
    /\ mealLast.ret.items[2].calories = PyFloat(247500)
    /\ mealLast.ret.total.calories = PyFloat(559500)

----------------------------------------------------------------------------
(* Properties of calculate_rda (SpecRda) *)

\* C9: for every nutrient of the RDA table, an intake equal to the RDA gives
\* the percentage 100.0, a nutrient missing from the intake counts as 0 and
\* gives 0, and an RDA that is not positive gives 0 without a division.
C9_RdaPercentages ==
    /\ rdaLast # PyNone =>
          /\ DOMAIN rdaLast.ret = DOMAIN RDA_VALUES
          /\ \A n \in DOMAIN RDA_VALUES :
                /\ rdaLast.ret[n].rda = RDA_VALUES[n]
                /\ n \notin DOMAIN rdaLast.intake =>
                      /\ IsZero(rdaLast.ret[n].intake)
                      /\ IsZero(rdaLast.ret[n].percentage)
                /\ (n \in DOMAIN rdaLast.intake
                    /\ rdaLast.intake[n].v = RDA_VALUES[n].v) =>
                      /\ rdaLast.ret[n].percentage = PyFloat(100000)
                      /\ rdaLast.ret[n].intake = rdaLast.intake[n]
    /\ \A r \in {PyInt(0), PyFloat(0), PyInt(-18)} :
          \A i \in {PyInt(0), PyInt(50), PyFloat(20000)} :
              IsZero(rda_percentage(i, r))

\* An intake with protein at its RDA, without fiber, and with a third
\* nutrient at another value.
C9_Witness ==
    /\ rdaLast # PyNone
    /\ "protein_g" \in DOMAIN rdaLast.intake
    /\ rdaLast.intake.protein_g = PyInt(50)
    /\ rdaLast.ret.protein_g.percentage = PyFloat(100000)
    /\ "fiber_g" \notin DOMAIN rdaLast.intake
    /\ IsZero(rdaLast.ret.fiber_g.percentage)
    /\ "iron_mg" \in DOMAIN rdaLast.intake
    /\ rdaLast.ret.iron_mg.percentage = PyFloat(111100)

----------------------------------------------------------------------------
(* Further properties of the conversion (SpecConvert) *)

\* A logged convert_to_grams("egg", 2, "piece").
IsEggPiece(e) ==
    e.food_name = S_egg /\ e.quantity = PyInt(2) /\ e.unit = S_piece

Key_egg_2_piece == <<"e","g","g","|","2","|","p","i","e","c","e">>

\* C11, as stated: convert("egg", 2, "piece") yields 100 g (50 g per egg).
C11_PieceIs100 ==
    \A i \in 1..Len(convLog) :
        IsEggPiece(convLog[i]) => convLog[i].grams.v = 100000

\* C11, amended: the conversion of 2 pieces of egg is what the inference
\* collaborator answers (100 only when it answers 100), the cached answer,
\* or 200 (quantity * 100) when the inference call fails; and egg, 100 g,
\* from the local tier has 155.0 calories.
C11_ScenarioB ==
    \A i \in 1..Len(convLog) :
        IsEggPiece(convLog[i]) =>
            /\ convLog[i].fallback => convLog[i].grams = PyInt(200)
            /\ ~convLog[i].fallback =>
                  /\ Key_egg_2_piece \in DOMAIN cache
                  /\ cache[Key_egg_2_piece] = convLog[i].grams
            /\ convLog[i].called \/ (\E j \in 1..(i-1) : IsEggPiece(convLog[j])
                                        /\ convLog[j].called /\ ~convLog[j].fallback)
            /\ (IsFinite(convLog[i].grams) /\ convLog[i].grams.v = 100000) =>
                  /\ ~convLog[i].fallback
                  /\ lookup_food_local(convLog[i].food_name,
                                       convLog[i].grams).calories = PyFloat(155000)
                  /\ IsFrom(lookup_food_local(convLog[i].food_name,
                                              convLog[i].grams), "local")

\* convert("egg", 2, "piece") answered "100" by the inference collaborator.
C11_Witness ==
    \E i \in 1..Len(convLog) :
        /\ IsEggPiece(convLog[i])
        /\ convLog[i].called /\ ~convLog[i].fallback
        /\ convLog[i].grams = PyFloat(100000)
        /\ lookup_food_local(S_egg, convLog[i].grams).calories = PyFloat(155000)

\* C13: for a gram-equivalent unit, the grams of twice a quantity are twice
\* the grams of the quantity (as numbers: 2 == 2.0).
C13_Doubling ==
    \A i, j \in 1..Len(convLog) :
        (/\ convLog[i].food_name = convLog[j].food_name
         /\ convLog[i].unit = convLog[j].unit
         /\ Lower(convLog[i].unit) \in GramUnits
         /\ IsFinite(convLog[i].quantity) /\ IsFinite(convLog[j].quantity)
         /\ convLog[j].quantity.v = 2 * convLog[i].quantity.v) =>
            /\ IsFinite(convLog[i].grams) /\ IsFinite(convLog[j].grams)
            /\ convLog[j].grams.v = 2 * convLog[i].grams.v

\* 1 KG and 2.0 KG of rice: 1000 and 2000.0 g; or 1 mg and 2 mg.
C13_Witness ==
    \E i, j \in 1..Len(convLog) :
        /\ convLog[i].unit = S_KG /\ convLog[j].unit = S_KG
        /\ convLog[i].food_name = convLog[j].food_name
        /\ convLog[i].quantity = PyInt(1) /\ convLog[j].quantity = PyFloat(2000)
        /\ convLog[i].grams = PyInt(1000)
        /\ convLog[j].grams = PyFloat(2000000)

\* Two calls whose inputs are equivalent: names and units equal up to letter
\* case, quantities numerically equal.
EquivalentInputs(a, b) ==
    /\ Lower(a.food_name) = Lower(b.food_name)
    /\ Lower(a.unit) = Lower(b.unit)
    /\ IsFinite(a.quantity) /\ IsFinite(b.quantity)
    /\ a.quantity.v = b.quantity.v

\* The cache key convert_to_grams uses for a logged call.
KeyOf(e) == cache_key(e.food_name, e.quantity, Lower(e.unit))

\* C14: calls with equivalent inputs use one and the same cache entry: the
\* cache never holds two entries for equivalent inputs.
C14_OneEntryPerInput ==
    \A i, j \in 1..Len(convLog) :
        (/\ EquivalentInputs(convLog[i], convLog[j])
         /\ KeyOf(convLog[i]) \in DOMAIN cache
         /\ KeyOf(convLog[j]) \in DOMAIN cache) =>
            KeyOf(convLog[i]) = KeyOf(convLog[j])

\* The grams a gram-equivalent unit stands for: quantity times 1, 0.001, 1000.
IsFactorOf(grams, quantity, unit_lower) ==
    CASE unit_lower \in {S_g, S_gram, S_grams} -> grams = quantity
      [] unit_lower = S_mg ->
            IsFinite(grams) /\ grams.k = "float" /\ grams.v * 1000 = quantity.v
      [] unit_lower = S_kg ->
            IsFinite(grams) /\ grams.v = quantity.v * 1000
      [] OTHER -> FALSE

\* C15: a call with a gram-equivalent unit in any letter case returns the
\* quantity times the fixed factor, issues no inference call, logs nothing
\* and leaves the conversion cache as it was.
C15_GramUnitsAreDirect ==
    [][(/\ Len(convLog') = Len(convLog) + 1
        /\ Lower(convLog'[Len(convLog')].unit) \in GramUnits) =>
          /\ cache' = cache
          /\ llmCalls' = llmCalls
          /\ ~convLog'[Len(convLog')].called
          /\ ~convLog'[Len(convLog')].fallback
          /\ IsFactorOf(convLog'[Len(convLog')].grams,
                        convLog'[Len(convLog')].quantity,
                        Lower(convLog'[Len(convLog')].unit))]_vars

\* After an inference answer was cached: 2.0 "KG" give 2000.0 g and 1 mg
\* gives 0.001 g without a further inference call.
C15_Witness ==
    /\ Len(convLog) = 2
    /\ cache # <<>> /\ llmCalls = 1
    /\ convLog[2].unit \in {S_KG, S_mg}
    /\ ~convLog[2].called
    /\ \/ convLog[2].quantity = PyFloat(2000) /\ convLog[2].grams = PyFloat(2000000)
       \/ convLog[2].quantity = PyInt(1) /\ convLog[2].grams = PyFloat(1)

----------------------------------------------------------------------------
(* Properties of the local tier (SpecLocal) *)

\* C12: for a name the local tier resolves and grams g > 0, the calories
\* for g differ from the calories for 100 g times g/100 by at most 0.05 (the
\* rounding to one decimal), and whether the name is resolved does not
\* depend on g. With t the calories for g in tenths, c those for 100 g in
\* tenths and h the grams in halves: |200 t - c h| <= 100.
C12_LinearScaling ==
    localLast # PyNone =>
        /\ "error" \in DOMAIN localLast.ret <=> "error" \in DOMAIN localLast.base
        /\ "error" \notin DOMAIN localLast.ret =>
              /\ IsFinite(localLast.ret.calories)
              /\ localLast.ret.calories.v % 100 = 0
              /\ Abs(200 * (localLast.ret.calories.v \div 100)
                     - (localLast.base.calories.v \div 100)
                         * (localLast.grams.v \div 500)) <= 100

\* 33 g of "boiled egg" (the entry of "egg"): 155 * 0.33 = 51.15, returned
\* as 51.2 or 51.1.
C12_Witness ==
    /\ localLast # PyNone
    /\ localLast.food_name = S_boiled_egg
    /\ localLast.grams = PyInt(33)
    /\ localLast.base.calories = PyFloat(155000)
    /\ localLast.ret.calories \in {PyFloat(51100), PyFloat(51200)}

----------------------------------------------------------------------------
(* Properties of the coroutines (SpecLoop) *)

TaskKey(t) ==
    cache_key(tasks[t].call.food_name, tasks[t].call.quantity,
              Lower(tasks[t].call.unit))

\* C16: among concurrent lookup_food coroutines at most one inference call
\* is in flight for a cache key, and once a coroutine's inference call for a
\* key has succeeded, a coroutine started later for the same key returns the
\* cached grams without an inference call.
C16_OneInFlightPerKey ==
    /\ \A t, u \in Tasks :
          (/\ tasks[t].pc = "in_generate" /\ tasks[u].pc = "in_generate"
           /\ tasks[t].key = tasks[u].key) => t = u
    /\ \A t, u \in Tasks :
          (/\ t < u
           /\ tasks[t].pc \in {"await_get", "done"}
           /\ tasks[u].pc \in {"await_get", "done"}
           /\ TaskKey(t) = TaskKey(u)
           /\ tasks[t].call.called /\ ~tasks[t].call.fallback) =>
              /\ ~tasks[u].call.called
              /\ tasks[u].call.grams = tasks[t].call.grams

\* "rice", 1, "cup" answered 240 by the inference collaborator and still
\* awaiting its GET while "Rice", 1, "Cup" is converted from the cache.
C16_Witness ==
    \E t, u \in Tasks :
        /\ t < u
        /\ tasks[t].pc = "await_get" /\ tasks[u].pc = "await_get"
        /\ tasks[t].call.food_name = S_rice /\ tasks[u].call.food_name = S_Rice
        /\ tasks[t].call.called /\ ~tasks[t].call.fallback
        /\ ~tasks[u].call.called
        /\ tasks[u].call.grams = PyFloat(240000)
        /\ llmCalls = 1

\* C17: a lookup_food call that was started eventually returns a record,
\* also when the inference call or the GET does not answer.
C17_LookupReturns ==
    \A t \in Tasks : (tasks[t].pc # "idle") ~> (tasks[t].pc = "done")

----------------------------------------------------------------------------
(* Further properties of calculate_rda (SpecRda) *)

\* C18: the result of calculate_rda has an {intake, rda, percentage} entry
\* for each of the five nutrients of the table and a deficiencies list,
\* which is empty.
C18_ResultShape ==
    rdaLast # PyNone =>
        /\ DOMAIN RDA_VALUES \subseteq DOMAIN rdaLast.ret
        /\ \A n \in DOMAIN RDA_VALUES :
              DOMAIN rdaLast.ret[n] = {"intake", "rda", "percentage"}
        /\ "deficiencies" \in DOMAIN rdaLast.ret
        /\ rdaLast.ret.deficiencies = <<>>

\* C19: the result of a calculate_rda call is the same for every profile,
\* and the call changes nothing of the engine's state (cache, counters of
\* external calls).
C19_ProfileIgnored ==
    [][rdaCalls' = rdaCalls + 1 =>
          /\ \A p \in Profiles :
                calculate_rda(p, rdaLast'.intake) = rdaLast'.ret
          /\ UNCHANGED <<cache, apiKey, llmCalls, usdaCalls>>]_vars

\* A call with a profile of age 30 and gender "female" and an intake with
\* iron: the iron allowance is the table's 18.
C19_Witness ==
    /\ rdaLast # PyNone
    /\ rdaLast.user_profile # <<>>
    /\ rdaLast.user_profile.gender = "female"
    /\ "iron_mg" \in DOMAIN rdaLast.intake
    /\ rdaLast.ret.iron_mg.rda = PyInt(18)
    /\ rdaLast.ret = calculate_rda(<<>>, rdaLast.intake)

----------------------------------------------------------------------------
(* Further properties of the meal aggregation (SpecMeal) *)

\* The value of nutrient k for item i of the last meal before any rounding,
\* in thousandths: the entry's value for 100 g times grams / 100 (exact for
\* whole grams), 0 for a name without entry.
UnroundedMilli(k, i) ==
    IF LocalMatch(Strip(Lower(mealLast.food_items[i].food_name))) = 0 THEN 0
    ELSE (LOCAL_DATABASE[LocalMatch(Strip(Lower(
              mealLast.food_items[i].food_name)))][k].v \div 100)
            * (mealLast.grams[i].v \div 1000)

RECURSIVE SumUnrounded(_, _)
SumUnrounded(k, n) ==
    IF n = 0 THEN 0 ELSE SumUnrounded(k, n - 1) + UnroundedMilli(k, n)

\* C20: each total of a meal is the sum of the items' unrounded values,
\* rounded once to one decimal.
C20_RoundedOnce ==
    mealLast # PyNone =>
        \A k \in TotalKeys :
            /\ IsFinite(mealLast.ret.total[k])
            /\ mealLast.ret.total[k].v =
                  100 * RoundHalfEven(SumUnrounded(k, Len(mealLast.food_items)), 100)

----------------------------------------------------------------------------
(* Rounding of the two tiers (SpecLocal) *)

\* C21: a value per 100 g scaled to the grams of the call is rounded to the
\* same number of decimals by both tiers: each value of a record of the local
\* tier is what get_nutrient of the remote tier returns for the same value
\* per 100 g and the same grams.
C21_OnePrecision ==
    (localLast # PyNone /\ "error" \notin DOMAIN localLast.ret) =>
        \A k \in TotalKeys :
            localLast.ret[k] =
                NutrientValue(
                    LOCAL_DATABASE[LocalMatch(Strip(Lower(localLast.food_name)))][k],
                    localLast.grams).val

----------------------------------------------------------------------------
(* Further properties of the conversion (SpecConvert) *)

\* The behaviours of the inference collaborator that make the try block of
\* convert_unit_with_llm raise: the call raises, or the answer is not text
\* that float() accepts.
FailingCompletions ==
    {x \in Completions : x.kind # "text" \/ ~ParseFloat(Strip(x.text)).ok}

\* C22: a call with a unit that is not a gram unit and a key that is not in
\* the cache, whose inference call raises or whose answer does not parse,
\* returns exactly quantity * 100, ends its log with a warning event (after
\* the error event of the handler), raises nothing and stores nothing.
C22_FallbackIsQuantityTimes100 ==
    [][\A i \in ConvInputs, x \in FailingCompletions :
          (/\ Lower(i[3]) \notin GramUnits
           /\ cache_key(i[1], i[2], Lower(i[3])) \notin DOMAIN cache
           /\ Convert(i[1], i[2], i[3], x)) =>
              /\ convLog'[Len(convLog')].grams = MulInt(i[2], 100)
              /\ ~convLog'[Len(convLog')].exc
              /\ convLog'[Len(convLog')].called
              /\ Len(convLog'[Len(convLog')].logs) >= 2
              /\ convLog'[Len(convLog')].logs[Len(convLog'[Len(convLog')].logs)]
                    = "tools.warning"
              /\ convLog'[Len(convLog')].logs[Len(convLog'[Len(convLog')].logs) - 1]
                    = "tools.error"
              /\ cache' = cache]_vars

\* 2 pieces of egg while the inference call raises: 200 grams, the model's
\* error event, then the handler's error and warning events.
C22_Witness ==
    \E i \in 1..Len(convLog) :
        /\ convLog[i].food_name = S_egg /\ convLog[i].unit = S_piece
        /\ convLog[i].quantity = PyInt(2)
        /\ convLog[i].grams = PyInt(200)
        /\ convLog[i].logs =
              <<"model.info", "model.error", "tools.error", "tools.warning">>
        /\ ~convLog[i].exc

\* C23: the conversion cache only grows, and only by parsed inference
\* answers. Every step keeps each entry with its value; a new entry is the
\* key of the call just made, which issued an inference call that did not
\* fall back, with the grams that call returned; a call that fell back or
\* issued no inference call leaves the cache as it was.
C23_CacheAppendOnly ==
    [][/\ \A k \in DOMAIN cache : k \in DOMAIN cache' /\ cache'[k] = cache[k]
       /\ Len(convLog') = Len(convLog) + 1 =>
            /\ \A k \in DOMAIN cache' \ DOMAIN cache :
                  /\ k = KeyOf(convLog'[Len(convLog')])
                  /\ convLog'[Len(convLog')].called
                  /\ ~convLog'[Len(convLog')].fallback
                  /\ cache'[k] = convLog'[Len(convLog')].grams
            /\ (convLog'[Len(convLog')].fallback
                  \/ ~convLog'[Len(convLog')].called) => cache' = cache]_vars

\* An answer was stored, then another key fell back to quantity * 100: the
\* cache holds the first answer alone.
C23_Witness ==
    /\ Len(convLog) = 2
    /\ convLog[1].called /\ ~convLog[1].fallback
    /\ convLog[2].called /\ convLog[2].fallback
    /\ KeyOf(convLog[1]) # KeyOf(convLog[2])
    /\ DOMAIN cache = {KeyOf(convLog[1])}
    /\ cache[KeyOf(convLog[1])] = convLog[1].grams

----------------------------------------------------------------------------
(* Matching of names in the local tier (SpecLocal) *)

\* The last lookup_food_local call used entry i of the table: what the name
\* gives for 100 g are the values of that entry.
UsesEntry(i) ==
    /\ "error" \notin DOMAIN localLast.base
    /\ localLast.base.source = "local"
    /\ \A k \in TotalKeys : localLast.base[k].v = LOCAL_DATABASE[i][k].v

\* Key i contains the name or is contained in it.
PartOf(i, normalized_name) ==
    \/ IsSubstr(LocalKeys[i], normalized_name)
    \/ IsSubstr(normalized_name, LocalKeys[i])

\* C24: lookup_food_local uses the entry whose key is the lower-cased,
\* trimmed name when there is one, and otherwise the first key in
\* declaration order that contains the name or is contained in it.
C24_FirstDeclaredKeyWins ==
    localLast # PyNone =>
        /\ \A i \in 1..Len(LocalKeys) :
              LocalKeys[i] = Strip(Lower(localLast.food_name)) => UsesEntry(i)
        /\ (\A i \in 1..Len(LocalKeys) :
                LocalKeys[i] # Strip(Lower(localLast.food_name))) =>
              \A i \in 1..Len(LocalKeys) :
                  (/\ PartOf(i, Strip(Lower(localLast.food_name)))
                   /\ \A j \in 1..(i - 1) :
                         ~PartOf(j, Strip(Lower(localLast.food_name)))) =>
                      UsesEntry(i)

\* "egg bread" contains the keys "egg" (third) and "bread" (seventh): 150 g
\* are 150 g of egg, 232.5 kcal.
C24_Witness ==
    /\ localLast # PyNone
    /\ localLast.food_name = S_egg_bread
    /\ localLast.grams = PyInt(150)
    /\ UsesEntry(3)
    /\ localLast.ret.calories \in {PyFloat(232400), PyFloat(232500), PyFloat(232600)}
    /\ localLast.ret.source = "local"

\* C28: lookup_food_local returns the not-found record (the macros 0, the
\* error text, no source) exactly when no key is the lower-cased, trimmed
\* name, contains it or is contained in it. The empty name is contained in
\* every key: an empty or blank name gets the first entry, rice, tagged
\* "local".
C28_NotFoundIffNoKey ==
    localLast # PyNone =>
        /\ "error" \in DOMAIN localLast.ret
              <=> NoLocalKey(Strip(Lower(localLast.food_name)))
        /\ "error" \in DOMAIN localLast.ret =>
              /\ \A k \in TotalKeys : localLast.ret[k] = PyInt(0)
              /\ "source" \notin DOMAIN localLast.ret
        /\ Strip(localLast.food_name) = <<>> =>
              /\ "error" \notin DOMAIN localLast.ret
              /\ localLast.ret.source = "local"
              /\ UsesEntry(1)

\* 100 g of a name of blanks: the record of rice, 130 kcal; and the name
\* without a key anywhere gets the not-found record.
C28_Witness ==
    /\ localLast # PyNone
    /\ localLast.food_name = S_blanks
    /\ localLast.grams = PyInt(100)
    /\ localLast.ret.calories = PyFloat(130000)
    /\ localLast.ret.source = "local"
    /\ "error" \in DOMAIN lookup_food_local(S_unobtainium_snack_42, PyInt(100))

----------------------------------------------------------------------------
(* The tiers of the meal aggregation (SpecMeal) *)

\* C25: calculate_meal_nutrition resolves every item by the local tier
\* alone. No call to the remote collaborator is issued, with or without an
\* API key; one lookup per item, each of the local tier; every item record
\* is tagged "local" or is the not-found record.
C25_MealIsLocalOnly ==
    /\ usdaCalls = 0
    /\ mealLast # PyNone =>
          /\ Len(mealLast.tiers) = Len(mealLast.food_items)
          /\ \A i \in 1..Len(mealLast.tiers) : mealLast.tiers[i] = "local"
          /\ \A i \in 1..Len(mealLast.ret.items) :
                IF "error" \in DOMAIN mealLast.ret.items[i]
                THEN "source" \notin DOMAIN mealLast.ret.items[i]
                ELSE mealLast.ret.items[i].source = "local"

\* With an API key configured: a meal of chicken breast (a local record) and
\* a name without entry (the not-found record).
C25_Witness ==
    /\ apiKey
    /\ mealLast # PyNone
    /\ mealLast.food_items = <<ItemChicken, ItemUnknown>>
    /\ mealLast.ret.items[1].source = "local"
    /\ "error" \in DOMAIN mealLast.ret.items[2]
    /\ mealLast.tiers = <<"local", "local">>
    /\ usdaCalls = 0

----------------------------------------------------------------------------
(* Nutrient IDs the best match does not list (SpecLoop) *)

\* The value a record of the remote tier carries for a name of NUTRIENT_IDS.
RemoteField(r, name) ==
    CASE name = "calories" -> r.calories
      [] name = "protein" -> r.protein_g
      [] name = "carbohydrates" -> r.carbs_g
      [] name = "fat" -> r.fat_g
      [] name = "fiber" -> r.fiber_g
      [] OTHER -> r.micronutrients[name]

\* C26: for a 200 response with a best match whose listed values are
\* numbers, and a finite amount, lookup_food_usda returns a record with the
\* five macro fields and the fifteen micronutrient keys; a nutrient whose id
\* the match does not list is 0, a listed one is its value times grams / 100
\* rounded to two decimals.
C26_AbsentIdsAreZero ==
    \A t \in Tasks :
        (/\ Finished(t) /\ ~tasks[t].exc
         /\ WellFormed(tasks[t].outcome)
         /\ IsFinite(tasks[t].call.grams)) =>
            /\ tasks[t].usda # PyNone
            /\ tasks[t].usda.source = "usda"
            /\ TotalKeys \subseteq DOMAIN tasks[t].usda
            /\ DOMAIN tasks[t].usda.micronutrients = MicronutrientKeys
            /\ \A name \in DOMAIN NUTRIENT_IDS :
                  /\ (\A n \in 1..Len(tasks[t].outcome.foods[1]) :
                         tasks[t].outcome.foods[1][n].nutrientId
                            # NUTRIENT_IDS[name]) =>
                        /\ IsFinite(RemoteField(tasks[t].usda, name))
                        /\ RemoteField(tasks[t].usda, name).v = 0
                  /\ \A n \in 1..Len(tasks[t].outcome.foods[1]) :
                        tasks[t].outcome.foods[1][n].nutrientId
                            = NUTRIENT_IDS[name] =>
                          RemoteField(tasks[t].usda, name) =
                              ScaleRound(tasks[t].outcome.foods[1][n].value,
                                         tasks[t].call.grams, 2)

\* 2 g of a best match that lists calories (52 per 100 g) and an id the
\* table does not know: 1.04 kcal, every other nutrient 0; and a best match
\* that lists nothing.
C26_Witness ==
    \E t, u \in Tasks :
        /\ Finished(t) /\ tasks[t].outcome = UsdaHttp(200, <<FoodSparse>>)
        /\ tasks[t].call.grams = PyInt(2)
        /\ tasks[t].usda # PyNone
        /\ tasks[t].usda.calories = PyFloat(1040)
        /\ tasks[t].usda.protein_g = PyFloat(0)
        /\ tasks[t].usda.micronutrients["iron"] = PyFloat(0)
        /\ Finished(u) /\ tasks[u].outcome = UsdaHttp(200, <<FoodBare>>)
        /\ tasks[u].usda # PyNone
        /\ tasks[u].usda.calories = PyFloat(0)

----------------------------------------------------------------------------
(* The key of the conversion cache (SpecConvert) *)

\* C27: a call answered from the cache (a unit that is not a gram unit, no
\* inference call) returns the value an earlier call stored for the same
\* normalized (food_name, quantity, unit): same name and unit up to letter
\* case, same quantity.
C27_HitIsOfSameTuple ==
    \A j \in 1..Len(convLog) :
        (Lower(convLog[j].unit) \notin GramUnits /\ ~convLog[j].called) =>
            \E i \in 1..(j - 1) :
                /\ convLog[i].called /\ ~convLog[i].fallback
                /\ EquivalentInputs(convLog[i], convLog[j])
                /\ convLog[i].grams = convLog[j].grams

----------------------------------------------------------------------------
(* Properties of AgentRunner (SpecAgent) *)

\* Call r is a call of run that stored its conversation in session sid.
StoredIn(r, sid) ==
    /\ runs[r].pc = "done" /\ runs[r].op = "run"
    /\ runs[r].stored /\ runs[r].session_id = sid

\* C29: a call of run that returns has appended two entries to the log of its
\* session, its user message directly followed by its reply (the apology
\* when the model call raised); a run that has not got its answer has
\* appended nothing. So in every state, concurrent runs on one session
\* included, each log has even length, alternates user, assistant from the
\* first entry on, and consists of the pairs of the runs that stored there.
C29_LogIsPairsOfRuns ==
    /\ \A sid \in DOMAIN sessions :
          /\ Len(sessions[sid].messages) % 2 = 0
          /\ \A i \in 1..Len(sessions[sid].messages) :
                sessions[sid].messages[i].role =
                    (IF i % 2 = 1 THEN "user" ELSE "assistant")
          /\ \A i \in 1..Len(sessions[sid].messages) :
                i % 2 = 1 =>
                    \E r \in Runs :
                        /\ StoredIn(r, sid) /\ runs[r].at = i
                        /\ sessions[sid].messages[i].content = runs[r].message
                        /\ sessions[sid].messages[i + 1].content = runs[r].result
          /\ 2 * Cardinality({r \in Runs : StoredIn(r, sid)})
                = Len(sessions[sid].messages)
    /\ \A r \in Runs :
          (runs[r].pc = "done" /\ runs[r].op = "run" /\ ~runs[r].exc) =>
              /\ StoredIn(r, runs[r].session_id)
              /\ runs[r].outcome.kind = "raise" => runs[r].result = APOLOGY
              /\ runs[r].outcome.kind = "text" =>
                    runs[r].result = runs[r].outcome.content

\* Two runs on session "s1" that overlapped: the second call was answered
\* first, with a reply, and stored its pair at 1; the first call, whose model
\* call raised, stored its message and the apology at 3.
C29_Witness ==
    /\ StoredIn(1, <<"s1">>) /\ StoredIn(2, <<"s1">>)
    /\ runs[2].at = 1 /\ runs[1].at = 3
    /\ runs[1].result = APOLOGY
    /\ runs[2].result = PyStr(<<"reply", 2>>)
    /\ Len(sessions[<<"s1">>].messages) = 4
    /\ sessions[<<"s1">>].messages[4].content = APOLOGY

\* Call r made its get_or_create_session in this step: a direct call, or
\* the start of a run.
GetsSessionNow(r) ==
    /\ runs[r].pc = "idle" /\ runs'[r].pc # "idle"

\* C30: a session is created at most once per session id and never
\* removed. In every step each session stays, with its session_id, its
\* user_id and the user_id and session_id of its context. A call of
\* get_or_create_session for an id that has a session creates nothing and
\* leaves every session as it is, whatever user_id it passes, and returns
\* that session; for a new id it stores a session with the user_id passed
\* and an empty log. The start of a run on a session that exists leaves its
\* log as it is.
C30_SessionCreatedOnce ==
    [][/\ \A sid \in DOMAIN sessions :
             /\ sid \in DOMAIN sessions'
             /\ sessions'[sid].session_id = sessions[sid].session_id
             /\ sessions'[sid].user_id = sessions[sid].user_id
             /\ sessions'[sid].context.user_id = sessions[sid].context.user_id
             /\ sessions'[sid].context.session_id
                   = sessions[sid].context.session_id
       /\ \A r \in Runs :
             GetsSessionNow(r) =>
                 /\ runs'[r].session_id \in DOMAIN sessions'
                 /\ runs'[r].created <=> runs'[r].session_id \notin DOMAIN sessions
                 /\ DOMAIN sessions' = DOMAIN sessions \cup {runs'[r].session_id}
                 /\ runs'[r].created =>
                       /\ sessions'[runs'[r].session_id].user_id = runs'[r].user_id
                       /\ sessions'[runs'[r].session_id].messages = <<>>
                 /\ ~runs'[r].created =>
                       sessions'[runs'[r].session_id].messages
                           = sessions[runs'[r].session_id].messages
                 /\ runs'[r].op = "get_or_create_session" =>
                       /\ runs'[r].ret = sessions'[runs'[r].session_id]
                       /\ ~runs'[r].created => sessions' = sessions]_vars

\* A run of user "u1" stored its conversation in session "s1"; then
\* get_or_create_session("s1") without user id returned that session, with
\* user "u1" and the two messages.
C30_Witness ==
    /\ StoredIn(1, <<"s1">>) /\ runs[1].user_id = PyStr("u1")
    /\ runs[2].pc = "done" /\ runs[2].op = "get_or_create_session"
    /\ runs[2].session_id = <<"s1">> /\ runs[2].user_id = PyNone
    /\ ~runs[2].created
    /\ runs[2].ret.user_id = PyStr("u1")
    /\ Len(runs[2].ret.messages) = 2
    /\ DOMAIN sessions = {<<"s1">>}

=============================================================================
